---- MODULE Spec2Model ----
(***************************************************************************)
(* Model of workflow/scripts/build_bus_regions.py: voronoi_partition_pts.  *)
(*                                                                         *)
(* Geometry is modelled on the integer lattice.  A location is a pair      *)
(* <<x, y>> of integers, a polygon is the set of lattice locations of a    *)
(* finite window of the plane that it covers (closed: boundary locations   *)
(* belong to it) together with its validity flag.  Distances are compared  *)
(* exactly through their squares.  Python's 0-based indices are 1-based    *)
(* here.                                                                   *)
(***************************************************************************)
EXTENDS Integers, Sequences, FiniteSets, TLC

\* the arguments, locals and outcome of one call of voronoi_partition_pts
VARIABLES points, outline, pc, bbox, vor, i, polygons, result, err, trace

\* a caller that calls again: the outcome of its first call, the calls made
VARIABLES first, calls

callVars == <<first, calls>>

\* one run of the script build_bus_regions: its configuration, the buses of
\* the network, the position of the run, the lists of region tables, the
\* calls of voronoi_partition_pts made so far and the files written
VARIABLES use_state_shapes, countries, states, buses, opc, idx, c_b,
          onshore_regions, offshore_regions, calllog, files, oerr

regionVars == <<use_state_shapes, countries, states, buses, opc, idx, c_b,
                onshore_regions, offshore_regions, calllog, files, oerr>>

partVars == <<points, outline, pc, bbox, vor, i, polygons, result, err, trace>>

\* one run of tests/test_yaml_structure.py: the two documents loaded, the
\* position of the run, what compare_structures returned, what was printed
VARIABLES data1, data2, ypc, yret, yout

yamlVars == <<data1, data2, ypc, yret, yout>>

\* one call of attach_demand of add_demand.py: the snapshots and the loads
\* of the network (loads0: the loads before the call), the arguments, the
\* position of the call and the error raised
VARIABLES snapshots, loads, loads0, df, carrier, suffix, dpc, derr

demandVars == <<snapshots, loads, loads0, df, carrier, suffix, dpc, derr>>

\* one call of sanitize_carriers of add_electricity.py: the components of
\* the network, n.carriers (n_carriers0: before the call), the configuration,
\* the position in the loop over the components and the error raised
VARIABLES components, n_carriers, n_carriers0, config, cidx, cpc, cerr

carrierVars == <<components, n_carriers, n_carriers0, config, cidx, cpc, cerr>>

\* calls of add_sector_foundation of add_sectors.py: the buses, generators and
\* carriers of the network (s_before: before the last call), the centre points,
\* the carrier of the last call, the carriers of the calls before it, the
\* position and the error raised
VARIABLES s_buses, s_generators, s_carriers, s_before, center_points, s_carrier, s_done, spc, serr

sectorVars == <<s_buses, s_generators, s_carriers, s_before, center_points, s_carrier, s_done, spc, serr>>

\* one call of split_loads_by_carrier of add_sectors.py: the buses and loads of
\* the network (l_before: before the call), the position in the loop over the
\* buses and the error raised
VARIABLES l_buses, l_loads, l_before, lidx, lpc, lerr

splitVars == <<l_buses, l_loads, l_before, lidx, lpc, lerr>>

\* one run of the script add_sectors: the sector wildcard, its elements, the
\* steps that have changed the network, the steps the exported network went
\* through, the position of the run and the error raised
VARIABLES m_wildcard, m_sectors, m_steps, m_exported, mpc, merr

mainVars == <<m_wildcard, m_sectors, m_steps, m_exported, mpc, merr>>

\* the loop of voronoi_partition_pts over cells as Qhull may return them: the
\* polygons of the cells, the outline, the index of the loop, the list built,
\* the steps taken and the position
VARIABLES r_cells, r_outline, r_i, r_polygons, r_trace, rpc

repairVars == <<r_cells, r_outline, r_i, r_polygons, r_trace, rpc>>

\* one run of the script add_demand: the sectors parameter, the demand files,
\* the index of the loop over them, the calls of attach_demand made, whether the
\* network was exported, the position of the run and the error raised
VARIABLES f_sectors, demand_files, f_i, f_attached, f_exported, fpc, ferr

fileVars == <<f_sectors, demand_files, f_i, f_attached, f_exported, fpc, ferr>>

\* one call of calculate_annuity: the lifetime, the discount rate (a scalar or
\* a Series, in tenths), the value returned and the position of the call
VARIABLES a_n, a_r, a_out, apc

annuityVars == <<a_n, a_r, a_out, apc>>

\* one pass of the loop of attach_breakthrough_renewable_plants, for one plant:
\* the snapshots of the network, the profile read, the capacity of the plant,
\* the frame p, p_nom, p_max_pu, the position and the error raised
VARIABLES w_snapshots, w_profile, w_Pmax, w_p, w_p_nom, w_p_max_pu, wpc, werr

profileVars == <<w_snapshots, w_profile, w_Pmax, w_p, w_p_nom, w_p_max_pu, wpc, werr>>

\* the state of the other scripts
scriptVars == <<yamlVars, demandVars, carrierVars, sectorVars, splitVars, mainVars, repairVars, fileVars, annuityVars, profileVars>>

\* the state that the steps of test_yaml_structure.py leave as it is
exceptYaml == <<partVars, callVars, regionVars, demandVars, carrierVars, sectorVars, splitVars, mainVars, repairVars, fileVars, annuityVars, profileVars>>

\* the state that the steps of attach_demand leave as it is
exceptDemand == <<partVars, callVars, regionVars, yamlVars, carrierVars, sectorVars, splitVars, mainVars, repairVars, fileVars, annuityVars, profileVars>>

\* the state that the steps of sanitize_carriers leave as it is
exceptCarriers == <<partVars, callVars, regionVars, yamlVars, demandVars, sectorVars, splitVars, mainVars, repairVars, fileVars, annuityVars, profileVars>>

\* the state that the steps of add_sector_foundation leave as it is
exceptSector == <<partVars, callVars, regionVars, yamlVars, demandVars, carrierVars, splitVars, mainVars, repairVars, fileVars, annuityVars, profileVars>>

\* the state that the steps of split_loads_by_carrier leave as it is
exceptSplit == <<partVars, callVars, regionVars, yamlVars, demandVars, carrierVars, sectorVars, mainVars, repairVars, fileVars, annuityVars, profileVars>>

\* the state that the steps of the script add_sectors leave as it is
exceptMain == <<partVars, callVars, regionVars, yamlVars, demandVars, carrierVars, sectorVars, splitVars, repairVars, fileVars, annuityVars, profileVars>>

\* the state that the steps of the loop over the cells leave as it is
exceptRepair == <<partVars, callVars, regionVars, yamlVars, demandVars, carrierVars, sectorVars, splitVars, mainVars, fileVars, annuityVars, profileVars>>

\* the state that the steps of the script add_demand leave as it is
exceptFiles == <<partVars, callVars, regionVars, yamlVars, demandVars, carrierVars, sectorVars, splitVars, mainVars, repairVars, annuityVars, profileVars>>

\* the state that the steps of calculate_annuity leave as it is
exceptAnnuity == <<partVars, callVars, regionVars, yamlVars, demandVars, carrierVars, sectorVars, splitVars, mainVars, repairVars, fileVars, profileVars>>

\* the state that the steps of the renewable profiles leave as it is
exceptProfile == <<partVars, callVars, regionVars, yamlVars, demandVars, carrierVars, sectorVars, splitVars, mainVars, repairVars, fileVars, annuityVars>>

\* the state outside voronoi_partition_pts
outside == <<callVars, regionVars, scriptVars>>

vars == <<partVars, outside>>

(* ------------------------------ bounds --------------------------------- *)

\* longest sequence of input points
MaxPts == 3
\* input points in general position have coordinates in 0..MaxCoord
MaxCoord == 1
\* input points on one line have coordinates in 0..LineCoord
LineCoord == 2
\* the window of the plane reaches Margin beyond the coordinates of the points
Margin == 1
\* Qhull's order of the regions is not specified: the regions are listed
\* in the order of their sites, or turned by MaxRot places
MaxRot == 1

\* calls one caller makes one after the other
MaxCalls == 3

\* the factor of the span by which the frame lies outside the bounding box
FrameFactor == 3

(* ----------------------------- geometry -------------------------------- *)

PMin == 0 - Margin
PMax == LineCoord + Margin

Grid == (0..MaxCoord) \X (0..MaxCoord)
LineGrid == (0..LineCoord) \X (0..LineCoord)
Plane == (PMin..PMax) \X (PMin..PMax)

Box(x0, y0, x1, y1) ==
  {q \in Plane : x0 <= q[1] /\ q[1] <= x1 /\ y0 <= q[2] /\ q[2] <= y1}

Dist2(p, q) == (p[1] - q[1]) * (p[1] - q[1]) + (p[2] - q[2]) * (p[2] - q[2])

Cross(a, b, c) == (b[1] - a[1]) * (c[2] - a[2]) - (b[2] - a[2]) * (c[1] - a[1])

MinOf(S) == CHOOSE m \in S : \A x \in S : m <= x
MaxOf(S) == CHOOSE m \in S : \A x \in S : x <= m

\* a polygon: the locations it covers and shapely's is_valid
Poly(locs, valid) == [locs |-> locs, valid |-> valid]

\* the outlines the calls are made with: a square that holds all the points
\* and reaches beyond them on every side, and one that holds only the corner
\* at the origin
WideOutline == Poly(Plane, TRUE)
CornerOutline == Poly(Box(PMin, PMin, 0, 0), TRUE)
Outlines == {WideOutline, CornerOutline}

\* all the points of a sequence lie on one line (or coincide)
OnOneLine(pts) ==
  \A a \in DOMAIN pts : \A b \in DOMAIN pts : \A c \in DOMAIN pts :
    Cross(pts[a], pts[b], pts[c]) = 0

\* the points of a sequence differ from each other
AllDifferent(pts) ==
  \A a \in DOMAIN pts : \A b \in DOMAIN pts : a # b => pts[a] # pts[b]

\* the inputs: every sequence of up to MaxPts points of the small grid
\* (coincident points included), and every sequence of 2..MaxPts different
\* points of the larger grid that lie on one line
PointSeqs == UNION {[1..n -> Grid] : n \in 0..MaxPts}
LineSeqs ==
  {s \in UNION {[1..n -> LineGrid] : n \in 2..MaxPts} : AllDifferent(s) /\ OnOneLine(s)}
Inputs == PointSeqs \cup LineSeqs

(* ---------------- voronoi_partition_pts: its pieces -------------------- *)


\* a variant of IsSinglePoint that also takes the empty sequence
IsSinglePointOrNone(pts) == Len(pts) <= 1

\* line 85: the branch that needs no diagram
IsSinglePoint(pts) == Len(pts) = 1


\* a variant of SinglePointPolygons that leaves the list empty
SinglePointNothing(out) == <<>>

\* line 86: polygons = [outline]
SinglePointPolygons(out) == <<out>>

\* lines 88-89: np.amin / np.amax raise ValueError on a zero-size array
ReductionFails(pts) == Len(pts) = 0

\* lines 88-91: the bounding box of the points and its spans
BBoxOf(pts) ==
  LET xs == {pts[k][1] : k \in DOMAIN pts}
      ys == {pts[k][2] : k \in DOMAIN pts}
  IN  [xmin |-> MinOf(xs), ymin |-> MinOf(ys),
       xmax |-> MaxOf(xs), ymax |-> MaxOf(ys),
       xspan |-> MaxOf(xs) - MinOf(xs), yspan |-> MaxOf(ys) - MinOf(ys)]

NoBBox == [xmin |-> 0, ymin |-> 0, xmax |-> 0, ymax |-> 0, xspan |-> 0, yspan |-> 0]


\* a variant of FramePoints that puts the frame on the corners of the box
FramePointsOnBox(bb) ==
  << <<bb.xmin, bb.ymin>>, <<bb.xmin, bb.ymax>>,
     <<bb.xmax, bb.ymin>>, <<bb.xmax, bb.ymax>> >>

\* lines 96-99: the corners of the rectangle framing the points
FramePoints(bb) ==
  << <<bb.xmin - FrameFactor * bb.xspan, bb.ymin - FrameFactor * bb.yspan>>,
     <<bb.xmin - FrameFactor * bb.xspan, bb.ymax + FrameFactor * bb.yspan>>,
     <<bb.xmax + FrameFactor * bb.xspan, bb.ymin - FrameFactor * bb.yspan>>,
     <<bb.xmax + FrameFactor * bb.xspan, bb.ymax + FrameFactor * bb.yspan>> >>

\* line 95: np.vstack((points, frame))
VStack(pts, bb) == pts \o FramePoints(bb)

\* scipy.spatial.Voronoi (line 95): Qhull raises QhullError ("initial simplex
\* is flat") when all the sites lie on one line or coincide
QhullFails(sites) ==
  \A b \in DOMAIN sites : \A c \in DOMAIN sites :
    Cross(sites[1], sites[b], sites[c]) = 0

\* the Voronoi cell of site k: the locations at least as close to it as to
\* every other site
Cell(sites, k) ==
  {q \in Plane : LET d == Dist2(q, sites[k])
                 IN  \A j \in DOMAIN sites : d <= Dist2(q, sites[j])}

\* the cell of site k is unbounded (its vertex list holds -1, the vertex at
\* infinity) exactly when the site is on the border of the convex hull of the
\* sites: some line through it and another site has all sites on one side
Unbounded(sites, k) ==
  \E t \in DOMAIN sites :
    /\ sites[t] # sites[k]
    /\ \/ \A u \in DOMAIN sites : Cross(sites[k], sites[t], sites[u]) >= 0
       \/ \A u \in DOMAIN sites : Cross(sites[k], sites[t], sites[u]) <= 0

\* coincident sites: Qhull keeps the first as a vertex, the others are
\* coplanar points that scipy maps to the region of the kept one (option Qc)
FirstIdx(sites, k) == MinOf({j \in DOMAIN sites : sites[j] = sites[k]})
Kept(sites) == {k \in DOMAIN sites : \A j \in 1..(k - 1) : sites[j] # sites[k]}

\* a region is the list of the Voronoi vertices around one site: the model
\* keeps the site (0 for the point at infinity that option Qz adds) and
\* whether the list holds -1
QzRegion == [site |-> 0, inf |-> TRUE]

\* the diagram: vor.regions in an order Qhull chooses (the order of the kept
\* sites turned by rot), vor.point_region from site index to region index
VoronoiOf(sites, rot) ==
  LET kept == Kept(sites)
      m == Cardinality(kept)
      Rank(k) == Cardinality({j \in kept : j <= k})
      Slot(r) == ((r - 1 + rot) % (m + 1)) + 1
      SiteAt(s) == CHOOSE k \in kept : Slot(Rank(k)) = s
  IN  [sites |-> sites,
       regions |-> [s \in 1..(m + 1) |->
                      IF s = Slot(m + 1) THEN QzRegion
                      ELSE [site |-> SiteAt(s),
                            inf |-> Unbounded(sites, SiteAt(s))]],
       point_region |-> [k \in DOMAIN sites |-> Slot(Rank(FirstIdx(sites, k)))]]

NoVor == [sites |-> <<>>, regions |-> <<>>, point_region |-> <<>>]


\* a variant of NewList that goes on with the list it finds
KeptList(found) == found

\* line 101: polygons = []
NewList(found) == <<>>


\* a variant of RegionIndex that takes the k-th region of the list
RegionIndexDirect(v, k) == k

\* line 103: the index of the region of point k
RegionIndex(v, k) == v.point_region[k]


\* a variant of PolygonOf that always takes the cell of the first site
PolygonOfFirst(v, region) == Poly(Cell(v.sites, 1), TRUE)

\* line 103: Polygon(vor.vertices[region]); a vertex list holding -1 picks
\* vor.vertices[-1] and is not the ring of the cell
PolygonOf(v, region) ==
  Poly(IF region.site = 0 THEN {} ELSE Cell(v.sites, region.site), ~region.inf)

\* a variant of NeedsRepair that never repairs
NeverRepair(poly) == FALSE

\* line 105: not poly.is_valid
NeedsRepair(poly) == ~poly.valid

\* line 106: poly.buffer(0)
Buffer0(poly) == Poly(poly.locs, TRUE)


\* variants of Intersection: the cell is not cut; the union is taken
IntersectionSkipped(poly, out) == poly
IntersectionAsUnion(poly, out) == Poly(poly.locs \cup out.locs, TRUE)

\* line 108: poly.intersection(outline)
Intersection(poly, out) == Poly(poly.locs \cap out.locs, TRUE)

\* line 108: GEOS may refuse an operand that is not valid (shapely raises a
\* topology error) or compute the intersection all the same
IntersectionMayRaise(out) == IF out.valid THEN {FALSE} ELSE {FALSE, TRUE}


\* a variant of Appended that leaves out an empty polygon
AppendedUnlessEmpty(polys, poly) ==
  IF poly.locs = {} THEN polys ELSE Append(polys, poly)

\* line 110: polygons.append(poly)
Appended(polys, poly) == Append(polys, poly)

\* outlines that are not well formed: one whose ring crosses itself, and an
\* empty one
BowTieOutline == Poly(Box(0, 0, MaxCoord, MaxCoord), FALSE)
EmptyOutline == Poly({}, TRUE)
MalformedOutlines == {BowTieOutline, EmptyOutline}

(* ------------------------- the state machine --------------------------- *)

\* no call was made before
CallsIdle ==
  /\ first = [points |-> <<>>, outline |-> EmptyOutline, pc |-> "none",
              result |-> <<>>, err |-> "none"]
  /\ calls = 1

NoFiles == [written |-> <<>>, onshore |-> <<>>, offshore |-> <<>>, network |-> <<>>]

\* the script is not run
RegionsIdle ==
  /\ use_state_shapes = FALSE
  /\ countries = <<>>
  /\ states = <<>>
  /\ buses = <<>>
  /\ opc = "idle"
  /\ idx = 1
  /\ c_b = {}
  /\ onshore_regions = <<>>
  /\ offshore_regions = <<>>
  /\ calllog = <<>>
  /\ files = NoFiles
  /\ oerr = "none"

\* test_yaml_structure.py is not run
YamlIdle ==
  /\ data1 = <<>>
  /\ data2 = <<>>
  /\ ypc = "idle"
  /\ yret = FALSE
  /\ yout = <<>>

\* attach_demand is not called
DemandIdle ==
  /\ snapshots = 0
  /\ loads = <<>>
  /\ loads0 = <<>>
  /\ df = <<>>
  /\ carrier = ""
  /\ suffix = <<>>
  /\ dpc = "idle"
  /\ derr = "none"

\* sanitize_carriers is not called
CarriersIdle ==
  /\ components = <<>>
  /\ n_carriers = <<>>
  /\ n_carriers0 = <<>>
  /\ config = <<>>
  /\ cidx = 1
  /\ cpc = "idle"
  /\ cerr = "none"

\* add_sector_foundation is not called
SectorIdle ==
  /\ s_buses = <<>>
  /\ s_generators = <<>>
  /\ s_carriers = <<>>
  /\ s_before = <<>>
  /\ center_points = <<>>
  /\ s_carrier = ""
  /\ s_done = <<>>
  /\ spc = "idle"
  /\ serr = "none"

\* split_loads_by_carrier is not called
SplitIdle ==
  /\ l_buses = <<>>
  /\ l_loads = <<>>
  /\ l_before = <<>>
  /\ lidx = 1
  /\ lpc = "idle"
  /\ lerr = "none"

\* add_sectors is not run
MainIdle ==
  /\ m_wildcard = <<>>
  /\ m_sectors = <<>>
  /\ m_steps = <<>>
  /\ m_exported = <<>>
  /\ mpc = "idle"
  /\ merr = "none"

\* no loop over given cells is run
RepairIdle ==
  /\ r_cells = <<>>
  /\ r_outline = EmptyOutline
  /\ r_i = 0
  /\ r_polygons = <<>>
  /\ r_trace = <<>>
  /\ rpc = "idle"

\* add_demand is not run
FilesIdle ==
  /\ f_sectors = ""
  /\ demand_files = <<>>
  /\ f_i = 0
  /\ f_attached = <<>>
  /\ f_exported = FALSE
  /\ fpc = "idle"
  /\ ferr = "none"

\* calculate_annuity is not called
AnnuityIdle ==
  /\ a_n = 0
  /\ a_r = [series |-> FALSE, rates |-> <<>>]
  /\ a_out = <<>>
  /\ apc = "idle"

\* no renewable plant is attached
ProfileIdle ==
  /\ w_snapshots = <<>>
  /\ w_profile = <<>>
  /\ w_Pmax = 0
  /\ w_p = <<>>
  /\ w_p_nom = 0
  /\ w_p_max_pu = <<>>
  /\ wpc = "idle"
  /\ werr = "none"

\* no other script is run
ScriptsIdle == YamlIdle /\ DemandIdle /\ CarriersIdle /\ SectorIdle /\ SplitIdle /\ MainIdle /\ RepairIdle /\ FilesIdle /\ AnnuityIdle /\ ProfileIdle

\* nothing outside the call is in use
OutsideIdle == CallsIdle /\ RegionsIdle /\ ScriptsIdle

\* voronoi_partition_pts is not called
PartIdle ==
  /\ points = <<>>
  /\ outline = EmptyOutline
  /\ pc = "idle"
  /\ bbox = NoBBox
  /\ vor = NoVor
  /\ i = 1
  /\ polygons = <<>>
  /\ result = <<>>
  /\ err = "none"
  /\ trace = <<>>

\* only test_yaml_structure.py is run
IdleButYaml == PartIdle /\ CallsIdle /\ RegionsIdle /\ DemandIdle /\ CarriersIdle /\ SectorIdle /\ SplitIdle /\ MainIdle /\ RepairIdle /\ FilesIdle /\ AnnuityIdle /\ ProfileIdle

\* only attach_demand is run
IdleButDemand == PartIdle /\ CallsIdle /\ RegionsIdle /\ YamlIdle /\ CarriersIdle /\ SectorIdle /\ SplitIdle /\ MainIdle /\ RepairIdle /\ FilesIdle /\ AnnuityIdle /\ ProfileIdle

\* only sanitize_carriers is run
IdleButCarriers == PartIdle /\ CallsIdle /\ RegionsIdle /\ YamlIdle /\ DemandIdle /\ SectorIdle /\ SplitIdle /\ MainIdle /\ RepairIdle /\ FilesIdle /\ AnnuityIdle /\ ProfileIdle

\* only add_sector_foundation is run
IdleButSector == PartIdle /\ CallsIdle /\ RegionsIdle /\ YamlIdle /\ DemandIdle /\ CarriersIdle /\ SplitIdle /\ MainIdle /\ RepairIdle /\ FilesIdle /\ AnnuityIdle /\ ProfileIdle

\* only split_loads_by_carrier is run
IdleButSplit == PartIdle /\ CallsIdle /\ RegionsIdle /\ YamlIdle /\ DemandIdle /\ CarriersIdle /\ SectorIdle /\ MainIdle /\ RepairIdle /\ FilesIdle /\ AnnuityIdle /\ ProfileIdle

\* only the script add_sectors is run
IdleButMain == PartIdle /\ CallsIdle /\ RegionsIdle /\ YamlIdle /\ DemandIdle /\ CarriersIdle /\ SectorIdle /\ SplitIdle /\ RepairIdle /\ FilesIdle /\ AnnuityIdle /\ ProfileIdle

\* only the loop over the cells is run
IdleButRepair == PartIdle /\ CallsIdle /\ RegionsIdle /\ YamlIdle /\ DemandIdle /\ CarriersIdle /\ SectorIdle /\ SplitIdle /\ MainIdle /\ FilesIdle /\ AnnuityIdle /\ ProfileIdle

\* only the script add_demand is run
IdleButFiles == PartIdle /\ CallsIdle /\ RegionsIdle /\ YamlIdle /\ DemandIdle /\ CarriersIdle /\ SectorIdle /\ SplitIdle /\ MainIdle /\ RepairIdle /\ AnnuityIdle /\ ProfileIdle

\* only calculate_annuity is run
IdleButAnnuity == PartIdle /\ CallsIdle /\ RegionsIdle /\ YamlIdle /\ DemandIdle /\ CarriersIdle /\ SectorIdle /\ SplitIdle /\ MainIdle /\ RepairIdle /\ FilesIdle /\ ProfileIdle

\* only the renewable profiles is run
IdleButProfile == PartIdle /\ CallsIdle /\ RegionsIdle /\ YamlIdle /\ DemandIdle /\ CarriersIdle /\ SectorIdle /\ SplitIdle /\ MainIdle /\ RepairIdle /\ FilesIdle /\ AnnuityIdle

Init ==
  /\ points \in Inputs
  /\ outline \in Outlines
  /\ pc = "start"
  /\ bbox = NoBBox
  /\ vor = NoVor
  /\ i = 1
  /\ polygons = <<>>
  /\ result = <<>>
  /\ err = "none"
  /\ trace = <<>>
  /\ OutsideIdle

\* lines 83-86
Start ==
  /\ pc = "start"
  /\ IF IsSinglePoint(points)
       THEN /\ polygons' = SinglePointPolygons(outline)
            /\ pc' = "return"
       ELSE /\ pc' = "bbox"
            /\ UNCHANGED polygons
  /\ trace' = Append(trace, "len")
  /\ UNCHANGED <<points, outline, bbox, vor, i, result, err>>
  /\ UNCHANGED outside

\* lines 88-91
BBox ==
  /\ pc = "bbox"
  /\ trace' = Append(trace, "amin")
  /\ IF ReductionFails(points)
       THEN /\ pc' = "raised"
            /\ err' = "ValueError"
            /\ UNCHANGED bbox
       ELSE /\ bbox' = BBoxOf(points)
            /\ pc' = "voronoi"
            /\ UNCHANGED err
  /\ UNCHANGED <<points, outline, vor, i, polygons, result>>
  /\ UNCHANGED outside

\* lines 95-101
BuildVoronoi(rot) ==
  /\ pc = "voronoi"
  /\ trace' = Append(trace, "voronoi")
  /\ IF QhullFails(VStack(points, bbox))
       THEN /\ pc' = "raised"
            /\ err' = "QhullError"
            /\ UNCHANGED <<vor, polygons, i>>
       ELSE /\ vor' = VoronoiOf(VStack(points, bbox), rot)
            /\ polygons' = NewList(polygons)
            /\ i' = 1
            /\ pc' = "loop"
            /\ UNCHANGED err
  /\ UNCHANGED <<points, outline, bbox, result>>
  /\ UNCHANGED outside

\* lines 102-110: one pass of the loop
LoopBody ==
  /\ pc = "loop"
  /\ i <= Len(points)
  /\ LET poly == PolygonOf(vor, vor.regions[RegionIndex(vor, i)])
         fixed == IF NeedsRepair(poly) THEN Buffer0(poly) ELSE poly
         steps == trace \o <<"polygon">>
                        \o (IF NeedsRepair(poly) THEN <<"buffer">> ELSE <<>>)
                        \o <<"intersection">>
     IN  \E raises \in IntersectionMayRaise(outline) :
           /\ trace' = steps
           /\ IF raises
                THEN /\ pc' = "raised"
                     /\ err' = "TopologicalError"
                     /\ UNCHANGED <<polygons, i>>
                ELSE /\ polygons' = Appended(polygons, Intersection(fixed, outline))
                     /\ i' = i + 1
                     /\ UNCHANGED <<pc, err>>
  /\ UNCHANGED <<points, outline, bbox, vor, result>>
  /\ UNCHANGED outside

\* line 113
Return ==
  /\ \/ pc = "return"
     \/ pc = "loop" /\ i > Len(points)
  /\ result' = polygons
  /\ pc' = "done"
  /\ trace' = Append(trace, "return")
  /\ UNCHANGED <<points, outline, bbox, vor, i, polygons, err>>
  /\ UNCHANGED outside

Next ==
  \/ Start
  \/ BBox
  \/ \E rot \in {0, MaxRot} : BuildVoronoi(rot)
  \/ LoopBody
  \/ Return

Spec == Init /\ [][Next]_vars

\* the calls made with an outline that is not well formed
InitMalformed ==
  /\ points \in Inputs
  /\ outline \in MalformedOutlines
  /\ pc = "start"
  /\ bbox = NoBBox
  /\ vor = NoVor
  /\ i = 1
  /\ polygons = <<>>
  /\ result = <<>>
  /\ err = "none"
  /\ trace = <<>>
  /\ OutsideIdle

SpecMalformed == InitMalformed /\ [][Next]_vars

(* ------------------- a caller that calls several times ----------------- *)

\* the first call of the caller has up to MaxPts - 1 points
CallInputs == {s \in PointSeqs : Len(s) < MaxPts}

\* the arguments of the calls made in between
OtherArgs ==
  {[points |-> << <<0, 0>>, <<1, 1>> >>, outline |-> CornerOutline],
   [points |-> << <<1, 0>> >>, outline |-> WideOutline]}

InitCalls ==
  /\ points \in CallInputs
  /\ outline \in Outlines
  /\ pc = "start"
  /\ bbox = NoBBox
  /\ vor = NoVor
  /\ i = 1
  /\ polygons = <<>>
  /\ result = <<>>
  /\ err = "none"
  /\ trace = <<>>
  /\ OutsideIdle

\* a call has ended and the caller calls again: the new activation has its
\* arguments; its locals hold whatever is found until the code assigns them
Enter(pts, out) ==
  /\ pc \in {"done", "raised"}
  /\ calls < MaxCalls
  /\ first' = IF calls = 1
                THEN [points |-> points, outline |-> outline, pc |-> pc,
                      result |-> result, err |-> err]
                ELSE first
  /\ calls' = calls + 1
  /\ points' = pts
  /\ outline' = out
  /\ pc' = "start"
  /\ result' = <<>>
  /\ err' = "none"
  /\ trace' = <<>>
  /\ UNCHANGED <<bbox, vor, i, polygons>>
  /\ UNCHANGED <<regionVars, scriptVars>>

\* the next call has other arguments
CallOther == \E a \in OtherArgs : Enter(a.points, a.outline)

\* the next call has the arguments of the first call
CallSame == calls > 1 /\ Enter(first.points, first.outline)

\* the call that follows the first call: with other arguments or the same
NextCalls ==
  \/ Start
  \/ BBox
  \/ \E rot \in {0, MaxRot} : BuildVoronoi(rot)
  \/ LoopBody
  \/ Return
  \/ CallOther
  \/ CallSame

SpecCalls == InitCalls /\ [][NextCalls]_vars

(* ------------------- the script build_bus_regions ---------------------- *)

\* the network has up to MaxBuses buses
MaxBuses == 3

\* lines 162, 200: the threshold 1e-2 of the area is 1 / AreaDen
AreaDen == 100

\* lines 128-132: the shapes read from the shape files, by name.  The land of
\* US is the north of the window, its waters the south-east; MX is the
\* south-west and has no waters; Texas and Louisiana share a border
country_shapes ==
  [US |-> Poly(Box(PMin, 1, PMax, PMax), TRUE),
   MX |-> Poly(Box(PMin, PMin, 0, 0), TRUE)]

offshore_shapes == [US |-> Poly(Box(1, PMin, PMax, 0), TRUE)]

state_shapes ==
  [Texas |-> Poly(Box(PMin, 1, 1, PMax), TRUE),
   Louisiana |-> Poly(Box(1, 1, PMax, PMax), TRUE),
   Oklahoma |-> Poly(Box(PMin, 1, PMax, PMax), TRUE)]

\* line 168: the names of the states
abbrev_to_us_state == [TX |-> "Texas", LA |-> "Louisiana", HI |-> "Hawaii", OK |-> "Oklahoma"]

\* lines 122-123: the configured countries and states
Configs ==
  {[countries |-> <<"US">>, states |-> <<"TX", "LA">>],
   [countries |-> <<"US", "MX">>, states |-> <<"HI", "TX">>],
   [countries |-> <<"MX">>, states |-> <<"LA">>],
   [countries |-> <<"US">>, states |-> <<"TX", "OK">>],
   [countries |-> <<>>, states |-> <<>>]}

\* line 126: the buses a network is made of, by name
BusTable ==
  << [loc |-> <<0, 2>>, country |-> "US", substation_lv |-> TRUE, substation_off |-> TRUE],
     [loc |-> <<2, 3>>, country |-> "US", substation_lv |-> TRUE, substation_off |-> FALSE],
     [loc |-> <<3, 0>>, country |-> "US", substation_lv |-> FALSE, substation_off |-> TRUE],
     [loc |-> <<2, -1>>, country |-> "US", substation_lv |-> TRUE, substation_off |-> TRUE],
     [loc |-> <<0, 0>>, country |-> "MX", substation_lv |-> TRUE, substation_off |-> FALSE],
     [loc |-> <<1, 1>>, country |-> "US", substation_lv |-> TRUE, substation_off |-> FALSE],
     [loc |-> <<-1, 3>>, country |-> "US", substation_lv |-> TRUE, substation_off |-> FALSE] >>

Networks ==
  {[b \in S |-> BusTable[b]] :
     S \in {T \in SUBSET DOMAIN BusTable : Cardinality(T) <= MaxBuses}}

\* the rows of a selection of n.buses, in the order of the index
RECURSIVE SortedSeq(_)
SortedSeq(S) == IF S = {} THEN <<>> ELSE <<MinOf(S)>> \o SortedSeq(S \ {MinOf(S)})

\* lines 143, 170, 188: the columns x and y of the selected rows
PointsOf(names) == [k \in DOMAIN names |-> buses[names[k]].loc]

\* lines 172, 191: shapely's contains: the point lies inside the shape and
\* not on its boundary
Contains(shape, p) ==
  /\ p \in shape.locs
  /\ \A dx \in -1..1 : \A dy \in -1..1 :
       <<p[1] + dx, p[2] + dy>> \in Plane => <<p[1] + dx, p[2] + dy>> \in shape.locs

\* a variant of InUS that selects every bus
AnyCountry(bs) == DOMAIN bs

\* line 167: c_b = n.buses.country == 'US'
InUS(bs) == {b \in DOMAIN bs : bs[b].country = "US"}

\* lines 83-113: what a call of voronoi_partition_pts ends with
PartitionPts(pts, out) ==
  IF IsSinglePoint(pts)
    THEN [err |-> "none", polygons |-> SinglePointPolygons(out)]
  ELSE IF ReductionFails(pts)
    THEN [err |-> "ValueError", polygons |-> <<>>]
  ELSE IF QhullFails(VStack(pts, BBoxOf(pts)))
    THEN [err |-> "QhullError", polygons |-> <<>>]
  ELSE LET v == VoronoiOf(VStack(pts, BBoxOf(pts)), 0)
           cell(k) == PolygonOf(v, v.regions[RegionIndex(v, k)])
           fixed(k) == IF ~cell(k).valid THEN Buffer0(cell(k)) ELSE cell(k)
       IN  [err |-> "none",
            polygons |-> [k \in DOMAIN pts |-> Intersection(fixed(k), out)]]

\* lines 144-150, 155-161, 174-181, 193-199: the GeoDataFrame of a call
Table(names, polys, label) ==
  [k \in DOMAIN names |->
     [name |-> names[k], loc |-> buses[names[k]].loc,
      geometry |-> polys[k], country |-> label]]

Area(poly) == Cardinality(poly.locs)


\* a variant of AreaFilter that keeps every row
NoFilter(table) == table

\* lines 162, 200: offshore_regions_c.loc[offshore_regions_c.area > 1e-2]
AreaFilter(table) == SelectSeq(table, LAMBDA r : AreaDen * Area(r.geometry) > 1)


\* a variant of NoOffshoreShape: no country has waters
NoWaters(country) == TRUE

\* line 152: country not in offshore_shapes.index
NoOffshoreShape(country) == country \notin DOMAIN offshore_shapes

\* lines 207, 209: pd.concat(..., ignore_index=True)
RECURSIVE Concat(_)
Concat(tables) == IF tables = <<>> THEN <<>> ELSE Head(tables) \o Concat(Tail(tables))


\* a variant of OffshoreRows: the tables are written, be there none
OffshoreTablesOnly(tables) == Concat(tables)

\* lines 208-211: the rows of the offshore file
OffshoreRows(tables) ==
  IF tables # <<>>
    THEN Concat(tables)
    ELSE <<[name |-> "US", geometry |-> offshore_shapes["US"]]>>

InitRegions ==
  /\ use_state_shapes \in BOOLEAN
  /\ \E c \in Configs : countries = c.countries /\ states = c.states
  /\ buses \in Networks
  /\ opc = "loop"
  /\ idx = 1
  /\ c_b = {}
  /\ onshore_regions = <<>>
  /\ offshore_regions = <<>>
  /\ calllog = <<>>
  /\ files = NoFiles
  /\ oerr = "none"
  /\ CallsIdle
  /\ ScriptsIdle
  /\ PartIdle

\* lines 139-152: the first half of a pass of the loop over the countries
CountryOnshore ==
  /\ ~use_state_shapes
  /\ opc = "loop"
  /\ idx <= Len(countries)
  /\ LET country == countries[idx]
         cb == {b \in DOMAIN buses : buses[b].country = country}
         onshore_shape == country_shapes[country]
         onshore_locs == SortedSeq({b \in cb : buses[b].substation_lv})
         out == PartitionPts(PointsOf(onshore_locs), onshore_shape)
     IN  /\ c_b' = cb
         /\ calllog' = Append(calllog, [label |-> country, class |-> "onshore",
                                        names |-> onshore_locs])
         /\ IF out.err # "none"
              THEN /\ opc' = "failed"
                   /\ oerr' = out.err
                   /\ UNCHANGED <<onshore_regions, idx>>
              ELSE /\ onshore_regions' =
                        Append(onshore_regions, Table(onshore_locs, out.polygons, country))
                   /\ IF NoOffshoreShape(country)
                        THEN opc' = "loop" /\ idx' = idx + 1
                        ELSE opc' = "offshore" /\ UNCHANGED idx
                   /\ UNCHANGED oerr
  /\ UNCHANGED <<use_state_shapes, countries, states, buses, offshore_regions, files>>
  /\ UNCHANGED <<partVars, callVars, scriptVars>>

\* lines 153-163: the second half of the pass
CountryOffshore ==
  /\ ~use_state_shapes
  /\ opc = "offshore"
  /\ LET country == countries[idx]
         offshore_shape == offshore_shapes[country]
         offshore_locs == SortedSeq({b \in c_b : buses[b].substation_off})
         out == PartitionPts(PointsOf(offshore_locs), offshore_shape)
     IN  /\ calllog' = Append(calllog, [label |-> country, class |-> "offshore",
                                        names |-> offshore_locs])
         /\ IF out.err # "none"
              THEN /\ opc' = "failed"
                   /\ oerr' = out.err
                   /\ UNCHANGED <<offshore_regions, idx>>
              ELSE /\ offshore_regions' =
                        Append(offshore_regions,
                               AreaFilter(Table(offshore_locs, out.polygons, country)))
                   /\ opc' = "loop"
                   /\ idx' = idx + 1
                   /\ UNCHANGED oerr
  /\ UNCHANGED <<use_state_shapes, countries, states, buses, c_b, onshore_regions, files>>
  /\ UNCHANGED <<partVars, callVars, scriptVars>>

\* lines 166-182: a pass of the loop over the states
StateOnshore ==
  /\ use_state_shapes
  /\ opc = "loop"
  /\ idx <= Len(states)
  /\ LET state == states[idx]
         cb == InUS(buses)
     IN  /\ c_b' = cb
         /\ IF abbrev_to_us_state[state] \notin DOMAIN state_shapes
              THEN /\ idx' = idx + 1
                   /\ UNCHANGED <<opc, oerr, onshore_regions, buses, calllog>>
              ELSE LET onshore_shape == state_shapes[abbrev_to_us_state[state]]
                       onshore_locs == {b \in cb : buses[b].substation_lv}
                       state_locs == SortedSeq({b \in onshore_locs :
                                                  Contains(onshore_shape, buses[b].loc)})
                       out == PartitionPts(PointsOf(state_locs), onshore_shape)
                   IN  /\ calllog' = Append(calllog, [label |-> state, class |-> "onshore",
                                                      names |-> state_locs])
                       /\ IF out.err # "none"
                            THEN /\ opc' = "failed"
                                 /\ oerr' = out.err
                                 /\ UNCHANGED <<onshore_regions, buses, idx>>
                            ELSE /\ onshore_regions' =
                                      Append(onshore_regions,
                                             Table(state_locs, out.polygons, state))
                                 /\ buses' = [b \in DOMAIN buses |->
                                                IF \E k \in DOMAIN state_locs : state_locs[k] = b
                                                  THEN [buses[b] EXCEPT !.country = state]
                                                  ELSE buses[b]]
                                 /\ idx' = idx + 1
                                 /\ UNCHANGED <<opc, oerr>>
  /\ UNCHANGED <<use_state_shapes, countries, states, offshore_regions, files>>
  /\ UNCHANGED <<partVars, callVars, scriptVars>>

\* lines 187-201: after the loop over the states.  c_b is the selection of
\* the last pass of the loop and is not bound when there was no pass
StateOffshore ==
  /\ use_state_shapes
  /\ opc = "loop"
  /\ idx > Len(states)
  /\ IF states = <<>>
       THEN /\ opc' = "failed"
            /\ oerr' = "NameError"
            /\ UNCHANGED <<offshore_regions, calllog>>
       ELSE LET offshore_shape == offshore_shapes["US"]
                offshore_locs == SortedSeq({b \in c_b : buses[b].substation_off})
                out == PartitionPts(PointsOf(offshore_locs), offshore_shape)
            IN  /\ calllog' = Append(calllog, [label |-> "US", class |-> "offshore",
                                               names |-> offshore_locs])
                /\ IF out.err # "none"
                     THEN /\ opc' = "failed"
                          /\ oerr' = out.err
                          /\ UNCHANGED offshore_regions
                     ELSE /\ offshore_regions' =
                               Append(offshore_regions,
                                      AreaFilter(Table(offshore_locs, out.polygons, "US")))
                          /\ opc' = "write"
                          /\ UNCHANGED oerr
  /\ UNCHANGED <<use_state_shapes, countries, states, buses, idx, c_b, onshore_regions, files>>
  /\ UNCHANGED <<partVars, callVars, scriptVars>>

\* lines 205-211: the network and the two region files are written
WriteFiles ==
  /\ \/ opc = "write"
     \/ ~use_state_shapes /\ opc = "loop" /\ idx > Len(countries)
  /\ IF onshore_regions = <<>>
       THEN /\ files' = [files EXCEPT !.written = <<"network">>, !.network = buses]
            /\ opc' = "failed"
            /\ oerr' = "ValueError"
       ELSE /\ files' = [written |-> <<"network", "regions_onshore", "regions_offshore">>,
                         network |-> buses,
                         onshore |-> Concat(onshore_regions),
                         offshore |-> OffshoreRows(offshore_regions)]
            /\ opc' = "written"
            /\ UNCHANGED oerr
  /\ UNCHANGED <<use_state_shapes, countries, states, buses, idx, c_b,
                 onshore_regions, offshore_regions, calllog>>
  /\ UNCHANGED <<partVars, callVars, scriptVars>>

NextRegions ==
  \/ CountryOnshore
  \/ CountryOffshore
  \/ StateOnshore
  \/ StateOffshore
  \/ WriteFiles

SpecRegions == InitRegions /\ [][NextRegions]_vars

(* ------------------- tests/test_yaml_structure.py ---------------------- *)

\* a mapping of a document has up to MaxKeys keys
MaxKeys == 2

\* line 6: the documents yaml.safe_load gives: scalars, mappings of keys to
\* documents and lists of documents, by their Python type
Scalars == {[t |-> "int"], [t |-> "str"]}

Dict(kv) == [t |-> "dict", kv |-> kv]
List(items) == [t |-> "list", items |-> items]

Mappings(values) ==
  {Dict(kv) : kv \in UNION {[K -> values] : K \in SUBSET (1..MaxKeys)}}

Lists(values) == {List(<<>>)} \cup {List(<<v>>) : v \in values}

Flat == Scalars \cup {Dict(<<>>), List(<<>>)}

Documents == Scalars \cup Mappings(Flat) \cup Lists(Flat)

\* lines 9-39: what compare_structures returns and the lines it prints
RECURSIVE compare_structures(_, _)
RECURSIVE CompareKeys(_, _, _)

\* lines 17-25: the loop over the keys of data1, from key k on
CompareKeys(d1, d2, k) ==
  IF k > MaxKeys THEN <<>>
  ELSE (IF k \notin DOMAIN d1.kv THEN <<>>
        ELSE IF k \notin DOMAIN d2.kv THEN <<"Missing key in second structure">>
        ELSE compare_structures(d1.kv[k], d2.kv[k]).out)
       \o CompareKeys(d1, d2, k + 1)

compare_structures(d1, d2) ==
  IF d1.t # d2.t
    THEN [ret |-> FALSE, out |-> <<"Type mismatch">>]
  ELSE IF d1.t = "dict"
    THEN [ret |-> TRUE,
          out |-> CompareKeys(d1, d2, 1)
                  \o [k \in 1..Cardinality(DOMAIN d2.kv \ DOMAIN d1.kv) |->
                        "Missing key in first structure"]]
  ELSE IF d1.t = "list"
    THEN [ret |-> TRUE,
          out |-> IF d1.items # <<>> /\ d2.items # <<>>
                    THEN compare_structures(d1.items[1], d2.items[1]).out
                  ELSE IF d1.items # <<>> \/ d2.items # <<>>
                    THEN <<"List length mismatch or one is empty">>
                  ELSE <<>>]
  ELSE [ret |-> TRUE, out |-> <<>>]

InitYaml ==
  /\ data1 \in Documents
  /\ data2 \in Documents
  /\ ypc = "start"
  /\ yret = FALSE
  /\ yout = <<>>
  /\ IdleButYaml

\* lines 42-50
test_yaml_structure ==
  /\ ypc = "start"
  /\ LET cmp == compare_structures(data1, data2)
     IN  /\ yret' = cmp.ret
         /\ yout' = <<"Comparing structure...">> \o cmp.out
                    \o (IF cmp.ret THEN <<"The structures match.">>
                                   ELSE <<"The structures do not match.">>)
  /\ ypc' = "done"
  /\ UNCHANGED <<data1, data2>>
  /\ UNCHANGED exceptYaml

NextYaml == test_yaml_structure

SpecYaml == InitYaml /\ [][NextYaml]_vars

(* ------------------------ pypsa.Network.madd --------------------------- *)

\* madd does not add components whose names are not distinct or are names of
\* components of the class already
MaddRefuses(names, rows) ==
  \/ \E a, b \in DOMAIN names : a # b /\ names[a] = names[b]
  \/ \E a \in DOMAIN names : \E b \in DOMAIN rows : names[a] = rows[b].name

(* ------------------- add_demand.py: attach_demand ---------------------- *)

\* the network has up to MaxSnapshots snapshots, df up to as many rows
MaxSnapshots == 2
\* df has up to MaxCols columns
MaxCols == 2

\* strings are sequences of characters; the names of the buses
BusNames == {<<"a">>, <<"b">>}

\* line 18: the frames passed as df: the number of rows, the columns, the
\* kind of index, and whether the index holds dates
Frames ==
  [rows : 1..MaxSnapshots,
   columns : UNION {[1..n -> BusNames] : n \in 0..MaxCols},
   index : {"raw"},
   parses : BOOLEAN]

\* lines 83-84, 97-98 and 110-111: the carrier and the suffix of a call
CarrierAndSuffix ==
  {[carrier |-> "AC", suffix |-> <<>>],
   [carrier |-> "res-elec", suffix |-> <<"-", "r">>]}

Load(name, bus, carr) == [name |-> name, bus |-> bus, carrier |-> carr]

\* the loads of the network the call is made with
LoadsBefore ==
  {<<>>,
   <<Load(<<"a">>, <<"a">>, "AC")>>,
   <<Load(<<"a", "-", "r">>, <<"a">>, "res-elec")>>}


\* a variant of LoadNames that leaves out the suffix
NamesWithoutSuffix(columns, suff) == columns

\* lines 29-32: the names madd gives the loads: the column and the suffix
LoadNames(columns, suff) == [k \in DOMAIN columns |-> columns[k] \o suff]

InitDemand ==
  /\ snapshots \in 1..MaxSnapshots
  /\ loads \in LoadsBefore
  /\ loads0 = loads
  /\ df \in Frames
  /\ \E c \in CarrierAndSuffix : carrier = c.carrier /\ suffix = c.suffix
  /\ dpc = "start"
  /\ derr = "none"
  /\ IdleButDemand

\* lines 24-36
attach_demand ==
  /\ dpc = "start"
  /\ IF ~df.parses
       THEN /\ dpc' = "raised"
            /\ derr' = "ValueError"
            /\ UNCHANGED <<df, loads>>
     ELSE IF df.rows # snapshots
       THEN /\ dpc' = "raised"
            /\ derr' = "AssertionError"
            /\ df' = [df EXCEPT !.index = "datetime"]
            /\ UNCHANGED loads
     ELSE /\ df' = [df EXCEPT !.index = "snapshots"]
          /\ IF MaddRefuses(LoadNames(df.columns, suffix), loads)
               THEN /\ UNCHANGED loads
                    /\ \E raises \in BOOLEAN :
                         IF raises
                           THEN dpc' = "raised" /\ derr' = "madd"
                           ELSE dpc' = "done" /\ UNCHANGED derr
               ELSE /\ loads' = loads \o
                         [k \in DOMAIN df.columns |->
                            Load(LoadNames(df.columns, suffix)[k], df.columns[k], carrier)]
                    /\ dpc' = "done"
                    /\ UNCHANGED derr
  /\ UNCHANGED <<snapshots, loads0, carrier, suffix>>
  /\ UNCHANGED exceptDemand

NextDemand == attach_demand

SpecDemand == InitDemand /\ [][NextDemand]_vars

(* ---------------- add_electricity.py: sanitize_carriers ---------------- *)

\* a component has up to MaxRows rows
MaxRows == 2

\* the carriers the components name; "" is pypsa's default
CarrierNames == {"AC", "gas", ""}

\* the column carrier of a component
CarrierCols == UNION {[1..n -> CarrierNames] : n \in 0..MaxRows}

\* line 162: n.iterate_components(): buses and generators have a column
\* carrier, line types have none
Components ==
  {<< [name |-> "Bus", has_carrier |-> TRUE, carrier |-> b],
      [name |-> "Generator", has_carrier |-> TRUE, carrier |-> g],
      [name |-> "LineType", has_carrier |-> FALSE, carrier |-> <<>>] >> :
     b \in CarrierCols, g \in CarrierCols}

Carrier(name, nice_name, color) == [name |-> name, nice_name |-> nice_name, color |-> color]

\* n.carriers before the call
CarrierFrames ==
  {<<>>,
   <<Carrier("AC", "", "")>>,
   <<Carrier("gas", "Natural gas", "#e05b09")>>,
   <<Carrier("gas", "", ""), Carrier("AC", "AC", "")>>}

\* config["plotting"]
PlottingConfigs ==
  {[nice_names |-> ("AC" :> "Alternating current"),
    tech_colors |-> ("AC" :> "#70af1d" @@ "gas" :> "#e0986c")],
   [nice_names |-> <<>>, tech_colors |-> ("AC" :> "#70af1d")]}


\* a variant of MissingCarriers: every carrier of the column
AllCarriers(col, rows) == {col[k] : k \in DOMAIN col}

\* line 130: set(carriers) - set(n.carriers.index)
MissingCarriers(col, rows) ==
  {col[k] : k \in DOMAIN col} \ {rows[k].name : k \in DOMAIN rows}

\* line 132: the order of the names of a set is any
Orders(S) ==
  {s \in [1..Cardinality(S) -> S] : \A a, b \in DOMAIN s : a # b => s[a] # s[b]}

\* line 169: str.title()
Title(name) ==
  CASE name = "AC" -> "Ac"
    [] name = "gas" -> "Gas"
    [] OTHER -> name

\* lines 166-174: the nice name of a carrier that has none
NiceName(name) ==
  IF name \in DOMAIN config.nice_names THEN config.nice_names[name] ELSE Title(name)

\* line 175: the colour of a carrier that has none; NaN if not configured
Color(name) ==
  IF name \in DOMAIN config.tech_colors THEN config.tech_colors[name] ELSE "NaN"

InitCarriers ==
  /\ components \in Components
  /\ n_carriers \in CarrierFrames
  /\ n_carriers0 = n_carriers
  /\ config \in PlottingConfigs
  /\ cidx = 1
  /\ cpc = "loop"
  /\ cerr = "none"
  /\ IdleButCarriers

\* lines 162-164 and 130-132: one pass of the loop over the components
add_missing_carriers ==
  /\ cpc = "loop"
  /\ cidx <= Len(components)
  /\ LET c == components[cidx]
         missing_carriers ==
           IF c.has_carrier THEN MissingCarriers(c.carrier, n_carriers) ELSE {}
     IN  IF missing_carriers = {}
           THEN /\ cidx' = cidx + 1
                /\ UNCHANGED <<n_carriers, cpc, cerr>>
           ELSE \E names \in Orders(missing_carriers) :
                  IF MaddRefuses(names, n_carriers)
                    THEN /\ UNCHANGED n_carriers
                         /\ \E raises \in BOOLEAN :
                              IF raises
                                THEN cpc' = "raised" /\ cerr' = "madd" /\ UNCHANGED cidx
                                ELSE cidx' = cidx + 1 /\ UNCHANGED <<cpc, cerr>>
                    ELSE /\ n_carriers' = n_carriers \o
                              [k \in DOMAIN names |-> Carrier(names[k], "", "")]
                         /\ cidx' = cidx + 1
                         /\ UNCHANGED <<cpc, cerr>>
  /\ UNCHANGED <<components, n_carriers0, config>>
  /\ UNCHANGED exceptCarriers

\* lines 166-179: the nice names and the colours
sanitize_names ==
  /\ cpc = "loop"
  /\ cidx > Len(components)
  /\ n_carriers' =
       [k \in DOMAIN n_carriers |->
          Carrier(n_carriers[k].name,
                  IF n_carriers[k].nice_name # ""
                    THEN n_carriers[k].nice_name ELSE NiceName(n_carriers[k].name),
                  IF n_carriers[k].color # ""
                    THEN n_carriers[k].color ELSE Color(n_carriers[k].name))]
  /\ cpc' = "done"
  /\ UNCHANGED <<components, n_carriers0, config, cidx, cerr>>
  /\ UNCHANGED exceptCarriers

NextCarriers == add_missing_carriers \/ sanitize_names

SpecCarriers == InitCarriers /\ [][NextCarriers]_vars

(* --------------- add_sectors.py: add_sector_foundation ----------------- *)

\* the network has up to MaxElecBuses buses before the first call
MaxElecBuses == 2
\* add_sector_foundation is called up to MaxSectorCalls times
MaxSectorCalls == 3

\* names are sequences of parts; the states of the buses, "NaN" for none
StateCodes == {"TX", "LA"}

ElecBus(k, state) ==
  [name |-> <<"p", k>>, State |-> state, carrier |-> "AC", x |-> k, y |-> k]

\* line 194: the buses of the network, with the column STATE of line 60
ElecNetworks ==
  UNION {{[k \in 1..n |-> ElecBus(k, st[k])] : st \in [1..n -> StateCodes \cup {"NaN"}]} :
           n \in 0..MaxElecBuses}

\* lines 69, 231: no centre points, those of all the states, those of TX only
CenterPointFrames ==
  {<<>>,
   [TX |-> [x |-> 7, y |-> 8], LA |-> [x |-> 9, y |-> 6]],
   [TX |-> [x |-> 7, y |-> 8]]}

\* line 234 and build_natural_gas: the carriers the function is called with
SectorCarriers == {"oil", "coal"}

\* pandas unique(): the values of a column in the order they first appear
RECURSIVE Unique(_)
Unique(col) ==
  IF col = <<>> THEN <<>>
  ELSE LET rest == Unique(SubSeq(col, 1, Len(col) - 1))
           last == col[Len(col)]
       IN  IF \E k \in DOMAIN rest : rest[k] = last THEN rest ELSE Append(rest, last)

\* line 91: n.buses.STATE.dropna().unique()
StatesOf(bs) == Unique(SelectSeq([k \in DOMAIN bs |-> bs[k].State], LAMBDA st : st # "NaN"))

\* line 101: center_points.loc[states] raises for a state that is not there
CenterPointsMissing(cp, sts) ==
  cp # <<>> /\ \E k \in DOMAIN sts : sts[k] \notin DOMAIN cp

\* lines 93-109: the coordinates: the centre point, or zero without any
PointOf(cp, st) == IF cp # <<>> THEN cp[st] ELSE [x |-> 0, y |-> 0]


\* a variant of SectorName that leaves out the carrier
BareStateName(st, carr) == <<st>>

\* lines 114, 121-122, 135-137: the name of the bus and generator of a state
SectorName(st, carr) == <<st, " ", carr>>

\* line 115: the states of the buses that have the names to create
ExistingStates(bs, sts, carr) ==
  Unique(SelectSeq(
    [k \in DOMAIN bs |->
       IF \E j \in DOMAIN sts : bs[k].name = SectorName(sts[j], carr)
         THEN bs[k].State ELSE "NaN"],
    LAMBDA st : st # "NaN"))

\* line 117: points[~points.index.isin(existing)]
StatesToAdd(bs, carr) ==
  LET sts == StatesOf(bs)
      existing == ExistingStates(bs, sts, carr)
  IN  SelectSeq(sts, LAMBDA st : ~\E k \in DOMAIN existing : existing[k] = st)

InitSector ==
  /\ s_buses \in ElecNetworks
  /\ s_generators = <<>>
  /\ s_carriers = <<"AC">>
  /\ s_before = [buses |-> s_buses, generators |-> <<>>, carriers |-> <<"AC">>]
  /\ center_points \in CenterPointFrames
  /\ s_carrier = ""
  /\ s_done = <<>>
  /\ spc = "ready"
  /\ serr = "none"
  /\ IdleButSector

\* lines 75-145
add_sector_foundation(carr) ==
  /\ spc = "ready"
  /\ Len(s_done) + (IF s_carrier = "" THEN 0 ELSE 1) < MaxSectorCalls
  /\ s_carrier' = carr
  /\ s_done' = IF s_carrier = "" THEN <<>> ELSE Append(s_done, s_carrier)
  /\ s_before' = [buses |-> s_buses, generators |-> s_generators, carriers |-> s_carriers]
  /\ s_carriers' = IF \E k \in DOMAIN s_carriers : s_carriers[k] = carr
                     THEN s_carriers ELSE Append(s_carriers, carr)
  /\ IF CenterPointsMissing(center_points, StatesOf(s_buses))
       THEN /\ spc' = "raised"
            /\ serr' = "KeyError"
            /\ UNCHANGED <<s_buses, s_generators>>
       ELSE LET new == StatesToAdd(s_buses, carr)
                names == [k \in DOMAIN new |-> SectorName(new[k], carr)]
            IN  /\ IF MaddRefuses(names, s_buses)
                     THEN UNCHANGED s_buses
                     ELSE s_buses' = s_buses \o
                            [k \in DOMAIN new |->
                               [name |-> names[k], State |-> new[k], carrier |-> carr,
                                x |-> PointOf(center_points, new[k]).x,
                                y |-> PointOf(center_points, new[k]).y]]
                /\ IF MaddRefuses(names, s_generators)
                     THEN UNCHANGED s_generators
                     ELSE s_generators' = s_generators \o
                            [k \in DOMAIN new |->
                               [name |-> names[k], bus |-> <<new[k], " ", carr>>,
                                carrier |-> carr, p_nom |-> 0, p_nom_extendable |-> TRUE]]
                /\ UNCHANGED <<spc, serr>>
  /\ UNCHANGED center_points
  /\ UNCHANGED exceptSector

NextSector == \E carr \in SectorCarriers : add_sector_foundation(carr)

SpecSector == InitSector /\ [][NextSector]_vars

(* --------------- add_sectors.py: split_loads_by_carrier ---------------- *)

\* the buses of the network before the call: each has its own coordinates,
\* interconnect and state
SplitBus(k) ==
  [name |-> <<"p", k>>, v_nom |-> 230, x |-> k, y |-> 10 + k, carrier |-> "AC",
   country |-> "US", interconnect |-> IF k = 1 THEN "texas" ELSE "eastern",
   State |-> IF k = 1 THEN "TX" ELSE "LA"]

\* the carriers of the loads add_demand attaches from sector files
LoadCarriers == <<"res-elec", "com-heat">>

\* add_demand names a load by its bus alone (electricity only) ...
ElecLoad(k) == Load(<<"p", k>>, <<"p", k>>, "AC")

\* ... or by its bus and the suffix "-" + carrier (sector files)
SectorLoad(k, carr) == Load(<<"p", k, "-", carr>>, <<"p", k>>, carr)

\* a load whose bus is not a bus of the network
StrayLoad == Load(<<"q", "-", "res-elec">>, <<"q">>, "res-elec")

\* the loads of one bus: named by the bus alone, or one for each of some
\* carriers
ElecChoices == {[elec |-> e, carriers |-> {}] : e \in BOOLEAN}
SectorChoices ==
  {[elec |-> FALSE, carriers |-> S] : S \in SUBSET {LoadCarriers[c] : c \in DOMAIN LoadCarriers}}

\* the loads of the buses 1..n
RECURSIVE LoadsOfBuses(_, _)
LoadsOfBuses(which, n) ==
  IF n = 0 THEN <<>>
  ELSE LoadsOfBuses(which, n - 1)
       \o (IF which[n].elec THEN <<ElecLoad(n)>> ELSE <<>>)
       \o SelectSeq([c \in DOMAIN LoadCarriers |-> SectorLoad(n, LoadCarriers[c])],
                    LAMBDA l : l.carrier \in which[n].carriers)

\* line 194 and add_demand: the networks the function is called with
SplitNetworks ==
  UNION {
    {[buses |-> [k \in 1..n |-> SplitBus(k)], loads |-> LoadsOfBuses(which, n) \o stray] :
       which \in [1..n -> ElecChoices] \cup [1..n -> SectorChoices],
       stray \in {<<>>, <<StrayLoad>>}} :
    n \in 0..MaxElecBuses}


\* a variant of LoadsOn that takes the loads of every bus
LoadsAnywhere(lds, bus) == lds

\* line 161: n.loads[n.loads.bus == bus]
LoadsOn(lds, bus) == SelectSeq(lds, LAMBDA l : l.bus = bus)

InitSplit ==
  /\ \E n \in SplitNetworks : l_buses = n.buses /\ l_loads = n.loads /\ l_before = n
  /\ lidx = 1
  /\ lpc = "loop"
  /\ lerr = "none"
  /\ IdleButSplit

\* lines 160-174: one pass of the loop over the buses the network had when
\* the loop began
split_bus ==
  /\ lpc = "loop"
  /\ lidx <= Len(l_before.buses)
  /\ LET bus == l_before.buses[lidx].name
         at == CHOOSE b \in DOMAIN l_buses : l_buses[b].name = bus
         on_bus == LoadsOn(l_loads, bus)
         names == [k \in DOMAIN on_bus |-> on_bus[k].name]
     IN  IF MaddRefuses(names, l_buses)
           THEN /\ UNCHANGED l_buses
                /\ \E raises \in BOOLEAN :
                     IF raises
                       THEN lpc' = "raised" /\ lerr' = "madd" /\ UNCHANGED lidx
                       ELSE lidx' = lidx + 1 /\ UNCHANGED <<lpc, lerr>>
           ELSE /\ l_buses' = l_buses \o
                     [k \in DOMAIN on_bus |->
                        [name |-> on_bus[k].name, v_nom |-> 1,
                         x |-> l_buses[at].x, y |-> l_buses[at].y,
                         carrier |-> on_bus[k].carrier,
                         country |-> l_buses[at].country,
                         interconnect |-> l_buses[at].interconnect,
                         State |-> l_buses[at].State]]
                /\ lidx' = lidx + 1
                /\ UNCHANGED <<lpc, lerr>>
  /\ UNCHANGED <<l_loads, l_before>>
  /\ UNCHANGED exceptSplit

\* line 176: n.loads["bus"] = n.loads.index
relabel_loads ==
  /\ lpc = "loop"
  /\ lidx > Len(l_before.buses)
  /\ l_loads' = [k \in DOMAIN l_loads |-> [l_loads[k] EXCEPT !.bus = l_loads[k].name]]
  /\ lpc' = "done"
  /\ UNCHANGED <<l_buses, l_before, lidx, lerr>>
  /\ UNCHANGED exceptSplit

NextSplit == split_bus \/ relabel_loads

SpecSplit == InitSplit /\ [][NextSplit]_vars

(* ----------------------- the script add_sectors ------------------------ *)

\* the sector wildcard has up to MaxWildcard characters
MaxWildcard == 3

\* the wildcards: strings of the letters E and G and the separator
Wildcards == UNION {[1..n -> {"E", "G", "-"}] : n \in 0..MaxWildcard}

\* line 196, and add_demand.py lines 94-95: str.split(sep): the pieces
\* between the separators, of which there is one more than separators
RECURSIVE Split(_, _)
Split(str, sep) ==
  IF str = <<>> THEN << <<>> >>
  ELSE LET rest == Split(Tail(str), sep)
       IN  IF Head(str) = sep
             THEN << <<>> >> \o rest
             ELSE << <<Head(str)>> \o Head(rest) >> \o Tail(rest)


\* a variant of AllElectricity: some element is "E"
AnyElectricity(sectors) == \E k \in DOMAIN sectors : sectors[k] = <<"E">>

\* line 199: all(s == "E" for s in sectors)
AllElectricity(sectors) == \A k \in DOMAIN sectors : sectors[k] = <<"E">>

\* lines 218-274: the steps that build the sectors, in their order
SectorSteps ==
  <<"assign_bus_2_state", "get_snapshots", "split_loads_by_carrier",
    "add_sector_foundation oil", "convert_generators_2_links oil",
    "add_sector_foundation coal", "convert_generators_2_links coal",
    "load_costs", "build_natural_gas", "build_heat", "build_transportation">>

InitMain ==
  /\ m_wildcard \in Wildcards
  /\ m_sectors = <<>>
  /\ m_steps = <<>>
  /\ m_exported = <<>>
  /\ mpc = "start"
  /\ merr = "none"
  /\ IdleButMain

\* lines 196-201
electricity_only ==
  /\ mpc = "start"
  /\ m_sectors' = Split(m_wildcard, "-")
  /\ IF AllElectricity(Split(m_wildcard, "-"))
       THEN /\ m_exported' = <<[network |-> m_steps]>>
            /\ mpc' = "exited"
       ELSE /\ mpc' = "sectors"
            /\ UNCHANGED m_exported
  /\ UNCHANGED <<m_wildcard, m_steps, merr>>
  /\ UNCHANGED exceptMain

\* lines 205-274: the next of the steps; each of them may raise
sector_step ==
  /\ mpc = "sectors"
  /\ Len(m_steps) < Len(SectorSteps)
  /\ \E raises \in BOOLEAN :
       IF raises
         THEN /\ mpc' = "raised"
              /\ merr' = SectorSteps[Len(m_steps) + 1]
              /\ UNCHANGED m_steps
         ELSE /\ m_steps' = Append(m_steps, SectorSteps[Len(m_steps) + 1])
              /\ UNCHANGED <<mpc, merr>>
  /\ UNCHANGED <<m_wildcard, m_sectors, m_exported>>
  /\ UNCHANGED exceptMain

\* line 276
export_network ==
  /\ mpc = "sectors"
  /\ Len(m_steps) = Len(SectorSteps)
  /\ m_exported' = Append(m_exported, [network |-> m_steps])
  /\ mpc' = "done"
  /\ UNCHANGED <<m_wildcard, m_sectors, m_steps, merr>>
  /\ UNCHANGED exceptMain

NextMain == electricity_only \/ sector_step \/ export_network

SpecMain == InitMain /\ [][NextMain]_vars

(* ------------- the loop of voronoi_partition_pts, cell by cell --------- *)

\* the loop runs over up to MaxCells cells
MaxCells == 2

\* line 103: the polygons of the cells. The ring Qhull returns for a bounded
\* cell may cross itself where vertices fall together within rounding, so a
\* polygon of either validity is taken for each cell
CellShapes == {Box(PMin, PMin, 0, PMax), Box(1, PMin, PMax, PMax), {}}
CellPolygons == {Poly(locs, valid) : locs \in CellShapes, valid \in BOOLEAN}
CellLists == UNION {[1..n -> CellPolygons] : n \in 0..MaxCells}

InitRepair ==
  /\ r_cells \in CellLists
  /\ r_outline \in Outlines \cup {BowTieOutline}
  /\ r_i = 1
  /\ r_polygons = <<>>
  /\ r_trace = <<>>
  /\ rpc = "loop"
  /\ IdleButRepair

\* lines 102-110: one pass of the loop
repair_and_cut ==
  /\ rpc = "loop"
  /\ r_i <= Len(r_cells)
  /\ LET poly == r_cells[r_i]
         fixed == IF NeedsRepair(poly) THEN Buffer0(poly) ELSE poly
         steps == r_trace
                    \o (IF NeedsRepair(poly)
                          THEN <<[step |-> "buffer", cell |-> r_i, operand |-> poly]>>
                          ELSE <<>>)
                    \o <<[step |-> "intersection", cell |-> r_i, operand |-> fixed]>>
     IN  \E raises \in IntersectionMayRaise(r_outline) :
           /\ r_trace' = steps
           /\ IF raises
                THEN /\ rpc' = "raised"
                     /\ UNCHANGED <<r_polygons, r_i>>
                ELSE /\ r_polygons' = Appended(r_polygons, Intersection(fixed, r_outline))
                     /\ r_i' = r_i + 1
                     /\ UNCHANGED rpc
  /\ UNCHANGED <<r_cells, r_outline>>
  /\ UNCHANGED exceptRepair

\* line 113
return_polygons ==
  /\ rpc = "loop"
  /\ r_i > Len(r_cells)
  /\ rpc' = "done"
  /\ UNCHANGED <<r_cells, r_outline, r_i, r_polygons, r_trace>>
  /\ UNCHANGED exceptRepair

NextRepair == repair_and_cut \/ return_polygons

SpecRepair == InitRepair /\ [][NextRepair]_vars

(* -------------------- the script add_demand ---------------------------- *)

\* a file name has up to MaxParts words
MaxParts == 4

\* lines 52-77: the mappers
sector_mapper ==
  [residential |-> "res", commercial |-> "com", industry |-> "ind", transport |-> "trn"]
carrier_mapper ==
  [electricity |-> "elec", heating |-> "heat", cooling |-> "cool", lpg |-> "lpg"]
    @@ ("space-heating" :> "space-heat") @@ ("water-heating" :> "water-heat")
vehicle_mapper ==
  [bus |-> "bus", air |-> "air-psg"]
    @@ ("heavy-duty" :> "hvy") @@ ("light-duty" :> "lgt") @@ ("med-duty" :> "med")
    @@ ("rail-shipping" :> "rail-ship") @@ ("rail-passenger" :> "rail-psg")
    @@ ("boat-shipping" :> "boat-ship")

\* a file name is a sequence of words, "_" and ".csv"
Words == {"transport", "light-duty", "electricity"}
Joined(ws) ==
  [k \in 1..(2 * Len(ws) - 1) |-> IF k % 2 = 1 THEN ws[(k + 1) \div 2] ELSE "_"]
FileNames ==
  {Joined(ws) \o <<".csv">> : ws \in UNION {[1..n -> Words] : n \in 1..MaxParts}}

\* line 42: the demand files: a name, with or without a well-named file
\* before it and after it
GoodFile == <<"transport", "_", "electricity", ".csv">>
DemandFiles ==
  {<<>>} \cup
  {pre \o <<f>> \o post : pre \in {<<>>, <<GoodFile>>}, f \in FileNames,
                          post \in {<<>>, <<GoodFile>>}}

\* lines 94-95: the parts of the name, the last without its ending; a part
\* is the string of its one word
ParsedName(name) ==
  LET parts == Split(name, "_")
      last == Head(Split(parts[Len(parts)], ".csv"))
      words == [parts EXCEPT ![Len(parts)] = last]
  IN  [k \in DOMAIN words |-> IF Len(words[k]) = 1 THEN words[k][1] ELSE ""]


\* a variant of SectorCarrier that joins the three parts in the order of the name
CarrierInNameOrder(parsed) ==
  IF Len(parsed) = 2
    THEN IF parsed[1] \in DOMAIN sector_mapper /\ parsed[2] \in DOMAIN carrier_mapper
           THEN [err |-> "none",
                 carrier |-> <<sector_mapper[parsed[1]], "-", carrier_mapper[parsed[2]]>>]
           ELSE [err |-> "KeyError", carrier |-> <<>>]
  ELSE IF Len(parsed) = 3
    THEN IF /\ parsed[1] \in DOMAIN sector_mapper
            /\ parsed[2] \in DOMAIN vehicle_mapper
            /\ parsed[3] \in DOMAIN carrier_mapper
           THEN [err |-> "none",
                 carrier |-> <<sector_mapper[parsed[1]], "-", vehicle_mapper[parsed[2]],
                               "-", carrier_mapper[parsed[3]]>>]
           ELSE [err |-> "KeyError", carrier |-> <<>>]
  ELSE [err |-> "NotImplementedError", carrier |-> <<>>]

\* lines 97-122: the carrier of a parsed name, or the error raised
SectorCarrier(parsed) ==
  IF Len(parsed) = 2
    THEN IF parsed[1] \in DOMAIN sector_mapper /\ parsed[2] \in DOMAIN carrier_mapper
           THEN [err |-> "none",
                 carrier |-> <<sector_mapper[parsed[1]], "-", carrier_mapper[parsed[2]]>>]
           ELSE [err |-> "KeyError", carrier |-> <<>>]
  ELSE IF Len(parsed) = 3
    THEN IF /\ parsed[1] \in DOMAIN sector_mapper
            /\ parsed[2] \in DOMAIN vehicle_mapper
            /\ parsed[3] \in DOMAIN carrier_mapper
           THEN [err |-> "none",
                 carrier |-> <<sector_mapper[parsed[1]], "-", carrier_mapper[parsed[3]],
                               "-", vehicle_mapper[parsed[2]]>>]
           ELSE [err |-> "KeyError", carrier |-> <<>>]
  ELSE [err |-> "NotImplementedError", carrier |-> <<>>]

\* lines 98, 111: suffix = f"-{carrier}"
SuffixOf(carr) == <<"-">> \o carr

InitFiles ==
  /\ f_sectors \in {"E", "", "E-G"}
  /\ demand_files \in DemandFiles
  /\ f_i = 1
  /\ f_attached = <<>>
  /\ f_exported = FALSE
  /\ fpc = "start"
  /\ ferr = "none"
  /\ IdleButFiles

\* lines 79-88: electricity only; attach_demand may raise
electricity_demand ==
  /\ fpc = "start"
  /\ f_sectors \in {"E", ""}
  /\ IF Len(demand_files) # 1
       THEN /\ fpc' = "raised"
            /\ ferr' = "AssertionError"
            /\ UNCHANGED f_attached
       ELSE \E raises \in BOOLEAN :
              IF raises
                THEN /\ fpc' = "raised"
                     /\ ferr' = "attach_demand"
                     /\ UNCHANGED f_attached
                ELSE /\ f_attached' = Append(f_attached,
                            [file |-> 1, carrier |-> <<"AC">>, suffix |-> <<>>])
                     /\ fpc' = "export"
                     /\ UNCHANGED ferr
  /\ UNCHANGED <<f_sectors, demand_files, f_i, f_exported>>
  /\ UNCHANGED exceptFiles

\* lines 92-126: one pass of the loop over the sector files; attach_demand
\* may raise
sector_demand ==
  /\ fpc = "start"
  /\ f_sectors \notin {"E", ""}
  /\ f_i <= Len(demand_files)
  /\ LET got == SectorCarrier(ParsedName(demand_files[f_i]))
     IN  IF got.err # "none"
           THEN /\ fpc' = "raised"
                /\ ferr' = got.err
                /\ UNCHANGED <<f_attached, f_i>>
           ELSE \E raises \in BOOLEAN :
                  IF raises
                    THEN /\ fpc' = "raised"
                         /\ ferr' = "attach_demand"
                         /\ UNCHANGED <<f_attached, f_i>>
                    ELSE /\ f_attached' = Append(f_attached,
                                [file |-> f_i, carrier |-> got.carrier,
                                 suffix |-> SuffixOf(got.carrier)])
                         /\ f_i' = f_i + 1
                         /\ UNCHANGED <<fpc, ferr>>
  /\ UNCHANGED <<f_sectors, demand_files, f_exported>>
  /\ UNCHANGED exceptFiles

\* line 128
export_demand ==
  /\ \/ fpc = "export"
     \/ fpc = "start" /\ f_sectors \notin {"E", ""} /\ f_i > Len(demand_files)
  /\ f_exported' = TRUE
  /\ fpc' = "done"
  /\ UNCHANGED <<f_sectors, demand_files, f_i, f_attached, ferr>>
  /\ UNCHANGED exceptFiles

NextFiles == electricity_demand \/ sector_demand \/ export_demand

SpecFiles == InitFiles /\ [][NextFiles]_vars

(* ---------------- add_electricity.py: calculate_annuity ---------------- *)

\* the lifetime is up to MaxYears years
MaxYears == 3
\* the discount rate lies between -MaxRate and MaxRate tenths
MaxRate == 2
\* a Series of rates has up to MaxSeries elements
MaxSeries == 2

\* numbers are fractions; a rate of p tenths is p/10
Frac(num, den) == [num |-> num, den |-> den]

RECURSIVE Power(_, _)
Power(b, k) == IF k = 0 THEN 1 ELSE b * Power(b, k - 1)

\* lines 117, 120: r / (1.0 - 1.0 / (1.0 + r) ** n) for r = p/10, which is
\* p (10 + p)^n / (10 ((10 + p)^n - 10^n))
AnnuityFormula(n, p) ==
  Frac(p * Power(10 + p, n), 10 * (Power(10 + p, n) - Power(10, n)))

\* lines 116, 122: 1 / n
OneOverN(n) == Frac(1, n)


\* lines 119-122: the scalar branches: r > 0, and the rest
ScalarAnnuity(n, p) == IF p > 0 THEN AnnuityFormula(n, p) ELSE OneOverN(n)

\* lines 116-118: the Series branch: 1 / n where r == 0, the formula elsewhere
SeriesAnnuity(n, ps) ==
  [k \in DOMAIN ps |-> IF ps[k] = 0 THEN OneOverN(n) ELSE AnnuityFormula(n, ps[k])]

\* line 110: the rates the function is called with
Rates == (0 - MaxRate)..MaxRate
RateArguments ==
  {[series |-> FALSE, rates |-> <<p>>] : p \in Rates} \cup
  {[series |-> TRUE, rates |-> ps] : ps \in UNION {[1..m -> Rates] : m \in 0..MaxSeries}}

InitAnnuity ==
  /\ a_n \in 1..MaxYears
  /\ a_r \in RateArguments
  /\ a_out = <<>>
  /\ apc = "start"
  /\ IdleButAnnuity

\* lines 115-122
calculate_annuity ==
  /\ apc = "start"
  /\ a_out' = IF a_r.series
                THEN SeriesAnnuity(a_n, a_r.rates)
                ELSE <<ScalarAnnuity(a_n, a_r.rates[1])>>
  /\ apc' = "done"
  /\ UNCHANGED <<a_n, a_r>>
  /\ UNCHANGED exceptAnnuity

NextAnnuity == calculate_annuity

SpecAnnuity == InitAnnuity /\ [][NextAnnuity]_vars

(* ------- add_electricity.py: attach_breakthrough_renewable_plants ------ *)

\* the network has up to MaxHours snapshots
MaxHours == 2
\* a profile has up to MaxProfileRows rows
MaxProfileRows == 3
\* the values of a profile lie in 0..MaxValue
MaxValue == 1

\* line 773: n.snapshots, the hours 1, 2, ...
SnapshotIndexes == {[k \in 1..n |-> k] : n \in 1..MaxHours}

\* lines 766-770: the profile of the plant: rows with their own time stamp
\* and the value
ProfileRows == [t : 1..MaxHours, v : 0..MaxValue]
Profiles == UNION {[1..n -> ProfileRows] : n \in 0..MaxProfileRows}

\* line 774: p.iloc[:Nhours, :]
FirstRows(rows, nhours) ==
  SubSeq(rows, 1, IF nhours < Len(rows) THEN nhours ELSE Len(rows))


\* a variant of Relabelled that gives a snapshot the row of its own time stamp
AlignedOnStamps(rows, sns) ==
  [k \in DOMAIN sns |->
     IF \E j \in DOMAIN rows : rows[j].t = sns[k]
       THEN [t |-> sns[k], v |-> rows[CHOOSE j \in DOMAIN rows : rows[j].t = sns[k]].v]
       ELSE [t |-> sns[k], v |-> 0]]

\* line 776: p.index = n.snapshots
Relabelled(rows, sns) == [k \in DOMAIN sns |-> [t |-> sns[k], v |-> rows[k].v]]

\* line 781: the maximum of Pmax and the largest value of the profile
NomOf(rows, Pmax) == MaxOf({Pmax} \cup {rows[k].v : k \in DOMAIN rows})

\* lines 782, 785: the profile over p_nom; 0/0 is filled with 0 (line 782)
PerUnit(rows, nom) ==
  [k \in DOMAIN rows |->
     [t |-> rows[k].t, v |-> IF nom = 0 THEN Frac(0, 1) ELSE Frac(rows[k].v, nom)]]

InitProfile ==
  /\ w_snapshots \in SnapshotIndexes
  /\ w_profile \in Profiles
  /\ w_Pmax \in {0, 2}
  /\ w_p = w_profile
  /\ w_p_nom = 0
  /\ w_p_max_pu = <<>>
  /\ wpc = "slice"
  /\ werr = "none"
  /\ IdleButProfile

\* lines 773-777: pandas raises ValueError when the new index has not the
\* length of the frame
slice_and_relabel ==
  /\ wpc = "slice"
  /\ LET cut == FirstRows(w_p, Len(w_snapshots))
     IN  IF Len(cut) # Len(w_snapshots)
           THEN /\ w_p' = cut
                /\ wpc' = "raised"
                /\ werr' = "ValueError"
           ELSE /\ w_p' = Relabelled(cut, w_snapshots)
                /\ wpc' = "scale"
                /\ UNCHANGED werr
  /\ UNCHANGED <<w_snapshots, w_profile, w_Pmax, w_p_nom, w_p_max_pu>>
  /\ UNCHANGED exceptProfile

\* lines 779-785
per_unit ==
  /\ wpc = "scale"
  /\ LET nom == IF w_Pmax = 0 THEN NomOf(w_p, w_Pmax) ELSE w_Pmax
     IN  /\ w_p_nom' = nom
         /\ w_p_max_pu' = PerUnit(w_p, nom)
  /\ wpc' = "done"
  /\ UNCHANGED <<w_snapshots, w_profile, w_Pmax, w_p, werr>>
  /\ UNCHANGED exceptProfile

NextProfile == slice_and_relabel \/ per_unit

SpecProfile == InitProfile /\ [][NextProfile]_vars

(* ------------------------------ claims --------------------------------- *)

TraceHas(step) == \E k \in DOMAIN trace : trace[k] = step

\* the locations of a region that lie inside it with all their neighbours:
\* two regions share area when such a location belongs to both
Interior(locs) ==
  {q \in locs : \A dx \in -1..1 : \A dy \in -1..1 :
     <<q[1] + dx, q[2] + dy>> \in Plane => <<q[1] + dx, q[2] + dy>> \in locs}
SharesArea(a, b) == Interior(a.locs) \cap Interior(b.locs) # {}

Covered == UNION {result[k].locs : k \in DOMAIN result}

\* C1: a call with one or more points that returns gives back exactly one
\* region per point, and the k-th region is the cell of the k-th point (of no
\* other point and of no frame point) cut to the outline
C1_OneRegionPerPointInOrder ==
  (pc = "done" /\ Len(points) >= 1) =>
    /\ Len(result) = Len(points)
    /\ \A k \in DOMAIN result :
         result[k].locs =
           IF Len(points) = 1 THEN outline.locs
           ELSE Cell(VStack(points, bbox), k) \cap outline.locs

C1_Witness ==
  /\ pc = "done"
  /\ Len(points) = 3
  /\ AllDifferent(points)
  /\ vor.point_region[1] # 1
  /\ \A k \in DOMAIN result : points[k] \in result[k].locs

\* C2: every returned region lies in the outline
C2_RegionsInsideOutline ==
  pc = "done" => \A k \in DOMAIN result : result[k].locs \subseteq outline.locs

C2_Witness ==
  /\ pc = "done"
  /\ Len(points) >= 2
  /\ \E k \in DOMAIN result :
       /\ result[k].locs # {}
       /\ ~(Cell(vor.sites, k) \subseteq outline.locs)

\* C3: with two or more points, every location of the region returned for a
\* point is at least as close to that point as to any other input point
C3_NearestSite ==
  (pc = "done" /\ Len(points) >= 2) =>
    \A a \in DOMAIN result : \A b \in DOMAIN points :
      points[a] # points[b] =>
        \A q \in result[a].locs : Dist2(q, points[a]) <= Dist2(q, points[b])

C3_Witness ==
  /\ pc = "done"
  /\ Len(points) >= 2
  /\ \E a \in DOMAIN result : \E b \in DOMAIN result :
       /\ points[a] # points[b]
       /\ \E q \in result[a].locs : Dist2(q, points[a]) < Dist2(q, points[b])
       /\ \E q \in result[a].locs : Dist2(q, points[a]) = Dist2(q, points[b])

\* C4 as claimed: the regions returned for two different indices share no area
C4_Original ==
  pc = "done" =>
    \A a \in DOMAIN result : \A b \in DOMAIN result :
      a # b => ~SharesArea(result[a], result[b])

\* C4 as amended: the regions returned for two indices whose points differ
\* share no area (they may meet on a boundary)
C4_NoOverlapOfDifferentPoints ==
  pc = "done" =>
    \A a \in DOMAIN result : \A b \in DOMAIN result :
      (a < b /\ points[a] # points[b]) => ~SharesArea(result[a], result[b])

C4_Witness ==
  /\ pc = "done"
  /\ \E a \in DOMAIN result : \E b \in DOMAIN result :
       /\ points[a] # points[b]
       /\ Interior(result[a].locs) # {}
       /\ Interior(result[b].locs) # {}
       /\ result[a].locs \cap result[b].locs # {}

\* C5 as claimed: the returned regions together cover the whole outline
C5_Original == pc = "done" => Covered = outline.locs

\* C6: a call with exactly one point returns the outline itself as its only
\* region, without raising and without building a diagram
C6_SinglePointIsOutline ==
  Len(points) = 1 =>
    /\ pc # "raised"
    /\ ~TraceHas("voronoi")
    /\ pc = "done" => result = <<outline>>

C6_Witness ==
  /\ pc = "done"
  /\ Len(points) = 1
  /\ points[1] \notin outline.locs

\* the scenario of C7 under the map (x, y) -> (4x - 1, 4y - 1): the unit
\* square becomes the square from (-1, -1) to (3, 3), the points (0.25, 0.5)
\* and (0.75, 0.5) become (0, 1) and (2, 1), the line x = 0.5 becomes x = 1
ScenarioSquare == Poly(Box(-1, -1, 3, 3), TRUE)
ScenarioPoints == << <<0, 1>>, <<2, 1>> >>

\* C7 as claimed: the call of the scenario returns two regions of equal area,
\* split by the line x = 1, that lie in the square and cover it
C7_Original ==
  (points = ScenarioPoints /\ outline = ScenarioSquare /\ pc \in {"done", "raised"}) =>
    /\ pc = "done"
    /\ Len(result) = 2
    /\ result[1].locs = {q \in ScenarioSquare.locs : q[1] <= 1}
    /\ result[2].locs = {q \in ScenarioSquare.locs : q[1] >= 1}
    /\ Cardinality(result[1].locs) = Cardinality(result[2].locs)
    /\ Covered = ScenarioSquare.locs

\* C8 as claimed: a call with three different points on one line, inside a
\* square outline, returns three regions that share no area, lie in the
\* square and cover it
C8_Original ==
  (/\ Len(points) = 3
   /\ OnOneLine(points)
   /\ AllDifferent(points)
   /\ outline = WideOutline
   /\ pc \in {"done", "raised"}) =>
    /\ pc = "done"
    /\ Len(result) = 3
    /\ \A a \in DOMAIN result : \A b \in DOMAIN result :
         a # b => ~SharesArea(result[a], result[b])
    /\ \A k \in DOMAIN result : result[k].locs \subseteq outline.locs
    /\ Covered = outline.locs

\* C9: in every diagram built for two or more points, the region of every
\* input point is bounded: its vertex list does not hold -1
C9_RealCellsBounded ==
  (Len(points) >= 2 /\ pc \in {"loop", "done"}) =>
    \A k \in DOMAIN points : ~vor.regions[vor.point_region[k]].inf

C9_Witness ==
  /\ pc = "loop"
  /\ Len(points) >= 2
  /\ \E s \in DOMAIN vor.regions :
       vor.regions[s].inf /\ vor.regions[s].site > Len(points)

\* C10 as claimed: a call with no points raises before the bounding box or
\* the diagram is computed, and returns nothing
C10_Original ==
  (Len(points) = 0 /\ pc \in {"done", "raised"}) =>
    /\ pc = "raised"
    /\ ~TraceHas("amin")
    /\ ~TraceHas("voronoi")
    /\ result = <<>>

\* C10 as amended: a call with no points raises the ValueError of the
\* bounding-box reduction, before any diagram is computed, and returns nothing
C10_EmptyInputRaisesInBBox ==
  Len(points) = 0 =>
    /\ pc \in {"start", "bbox", "raised"}
    /\ ~TraceHas("voronoi")
    /\ result = <<>>
    /\ polygons = <<>>
    /\ pc = "raised" => (err = "ValueError" /\ trace = <<"len", "amin">>)

C10_Witness == Len(points) = 0 /\ pc = "raised" /\ err = "ValueError"

\* C11 as claimed: a call with an outline that is not well formed ends in an
\* error, for every number of points, and returns nothing
C11_Original ==
  pc \in {"done", "raised"} => (pc = "raised" /\ result = <<>>)

\* C12: when the cell of a point and the outline are disjoint, the call
\* returns the empty polygon at the place of that point, still one element
\* per point, and no error is raised once the cells are being built
C12_DisjointCellGivesEmptyPolygon ==
  /\ (pc = "done" /\ Len(points) >= 2) =>
        /\ Len(result) = Len(points)
        /\ \A k \in DOMAIN points :
             Cell(VStack(points, bbox), k) \cap outline.locs = {}
               => result[k] = Poly({}, TRUE)
  /\ pc = "raised" => ~TraceHas("polygon")

C12_Witness ==
  /\ pc = "done"
  /\ Len(points) >= 2
  /\ \E k \in DOMAIN result : \E j \in DOMAIN result :
       /\ k < j
       /\ result[k].locs # {}
       /\ result[j].locs = {}
       /\ Cell(VStack(points, bbox), j) # {}

RECURSIVE CountryCalls(_)
CountryCalls(cs) ==
  IF cs = <<>> THEN <<>>
  ELSE <<[label |-> Head(cs), class |-> "onshore"]>>
       \o (IF Head(cs) \in DOMAIN offshore_shapes
             THEN <<[label |-> Head(cs), class |-> "offshore"]>> ELSE <<>>)
       \o CountryCalls(Tail(cs))

RECURSIVE StateCalls(_)
StateCalls(ss) ==
  IF ss = <<>> THEN <<>>
  ELSE (IF abbrev_to_us_state[Head(ss)] \in DOMAIN state_shapes
          THEN <<[label |-> Head(ss), class |-> "onshore"]>> ELSE <<>>)
       \o StateCalls(Tail(ss))

CallsMade == [k \in DOMAIN calllog |-> [label |-> calllog[k].label, class |-> calllog[k].class]]

IsPrefix(a, b) == Len(a) <= Len(b) /\ \A k \in DOMAIN a : a[k] = b[k]

CallsOf(label, class) ==
  {k \in DOMAIN calllog : calllog[k].label = label /\ calllog[k].class = class}

\* C14 as stated: a run that writes its files has called the partitioner
\* once with the onshore and once with the offshore points of every
\* configured country (or state)
C14_Original ==
  opc = "written" =>
    \A k \in DOMAIN (IF use_state_shapes THEN states ELSE countries) :
      LET part == (IF use_state_shapes THEN states ELSE countries)[k]
      IN  /\ Cardinality(CallsOf(part, "onshore")) = 1
          /\ Cardinality(CallsOf(part, "offshore")) = 1

\* C14: the calls are made one after the other: for every configured country
\* one with its onshore points and, if the country has an offshore shape,
\* one with its offshore points; with state shapes, one with the onshore
\* points of every configured state that has a shape and then a single one
\* with the offshore points of US
C14_CallsAsShapesAllow ==
  opc # "idle" =>
    LET wanted == IF use_state_shapes
                    THEN StateCalls(states) \o <<[label |-> "US", class |-> "offshore"]>>
                    ELSE CountryCalls(countries)
    IN  /\ IsPrefix(CallsMade, wanted)
        /\ opc = "written" => CallsMade = wanted

C14_Witness ==
  /\ opc = "written"
  /\ ~use_state_shapes
  /\ Len(countries) = 2
  /\ Len(calllog) = 3

\* C15: the two region files are written once each, after every country or
\* state was gone through: the onshore file holds the onshore tables one
\* after the other, the offshore file the offshore tables or, if there is
\* none, the offshore shapes
C15_FilesWrittenOnceAtTheEnd ==
  /\ opc = "written" =>
       /\ \A f \in {"regions_onshore", "regions_offshore"} :
            Cardinality({k \in DOMAIN files.written : files.written[k] = f}) = 1
       /\ idx > Len(IF use_state_shapes THEN states ELSE countries)
       /\ use_state_shapes => CallsOf("US", "offshore") # {}
       /\ files.onshore = Concat(onshore_regions)
       /\ files.offshore =
            (IF offshore_regions # <<>>
               THEN Concat(offshore_regions)
               ELSE <<[name |-> "US", geometry |-> offshore_shapes["US"]]>>)
  /\ opc \in {"loop", "offshore", "write"} => files = NoFiles

C15_Witness ==
  /\ opc = "written"
  /\ Len(onshore_regions) = 2
  /\ Len(offshore_regions) = 1
  /\ Len(files.onshore) = 3

\* C16: every row of an offshore region table, and so of the offshore file
\* made of them, has an area above the threshold, with country shapes and
\* with state shapes; an onshore table has one row for every point of its
\* call, whatever the area
C16_OffshoreRowsHaveArea ==
  /\ \A t \in DOMAIN offshore_regions : \A r \in DOMAIN offshore_regions[t] :
       AreaDen * Area(offshore_regions[t][r].geometry) > 1
  /\ (opc = "written" /\ offshore_regions # <<>>) =>
       \A r \in DOMAIN files.offshore : AreaDen * Area(files.offshore[r].geometry) > 1
  /\ LET onshore_calls == SelectSeq(calllog, LAMBDA c : c.class = "onshore")
     IN  \A t \in DOMAIN onshore_regions :
           Len(onshore_regions[t]) = Len(onshore_calls[t].names)

\* a row was dropped from the offshore table and a row without area is in
\* the onshore file
C16_Witness ==
  /\ opc = "written"
  /\ \E k \in DOMAIN calllog :
       /\ calllog[k].class = "offshore"
       /\ Len(calllog[k].names) > Len(files.offshore)
  /\ \E r \in DOMAIN files.onshore : Area(files.onshore[r].geometry) = 0

\* C17 as stated: every call of the partitioner passes at least one point
C17_Original == \A k \in DOMAIN calllog : Len(calllog[k].names) >= 1

\* the two documents have the same type at every nested path and the same
\* keys in every nested mapping
RECURSIVE SameStructure(_, _)
SameStructure(d1, d2) ==
  /\ d1.t = d2.t
  /\ d1.t = "dict" =>
       /\ DOMAIN d1.kv = DOMAIN d2.kv
       /\ \A k \in DOMAIN d1.kv : SameStructure(d1.kv[k], d2.kv[k])
  /\ d1.t = "list" =>
       /\ Len(d1.items) = Len(d2.items)
       /\ \A k \in DOMAIN d1.items : SameStructure(d1.items[k], d2.items[k])

\* C18 as stated: compare_structures returns True, and "The structures
\* match." is printed, only for documents of the same structure
C18_Original ==
  ypc = "done" =>
    /\ yret = SameStructure(data1, data2)
    /\ (yout[Len(yout)] = "The structures match.") = SameStructure(data1, data2)

\* the loads a call is to add: one for every column, named by the column and
\* the suffix, on the bus named by the column, with the carrier
LoadsToAdd == [k \in DOMAIN df.columns |-> Load(df.columns[k] \o suffix, df.columns[k], carrier)]

\* C19 as stated: with as many rows as snapshots the loads are added, with
\* another number of rows the assertion fails and no load is added
C19_Original ==
  dpc \in {"done", "raised"} =>
    IF df.rows = snapshots
      THEN dpc = "done" /\ loads = loads0 \o LoadsToAdd
      ELSE dpc = "raised" /\ derr = "AssertionError" /\ loads = loads0

\* C19: for a frame whose index holds dates: with another number of rows than
\* snapshots the assertion fails; with as many rows, and columns whose names
\* with the suffix are distinct and new among the loads, one load is added
\* for every column: named column and suffix, on the bus of the column, with
\* the carrier.  In every other case no load is added
C19_LoadsAddedForNewNames ==
  dpc \in {"done", "raised"} =>
    LET names == [k \in DOMAIN df.columns |-> df.columns[k] \o suffix]
        fresh == /\ \A a, b \in DOMAIN names : a # b => names[a] # names[b]
                 /\ \A a \in DOMAIN names : \A b \in DOMAIN loads0 : names[a] # loads0[b].name
    IN  /\ (df.parses /\ df.rows # snapshots) =>
             (dpc = "raised" /\ derr = "AssertionError" /\ loads = loads0)
        /\ (df.parses /\ df.rows = snapshots /\ fresh) =>
             (dpc = "done" /\ loads = loads0 \o LoadsToAdd)
        /\ ~(df.parses /\ df.rows = snapshots /\ fresh) => loads = loads0

C19_Witness ==
  /\ dpc = "done"
  /\ loads0 # <<>>
  /\ suffix # <<>>
  /\ Len(loads) = Len(loads0) + 2

\* C20: sanitize_carriers raises nothing; when it is done every carrier
\* named in the column carrier of a component is a name of n.carriers, the
\* carriers that were there before are the first rows still, and no name
\* is there twice
C20_CarriersPresentOnce ==
  /\ cpc # "raised"
  /\ cpc = "done" =>
       /\ \A c \in DOMAIN components : \A r \in DOMAIN components[c].carrier :
            \E k \in DOMAIN n_carriers : n_carriers[k].name = components[c].carrier[r]
       /\ \A k \in DOMAIN n_carriers0 : n_carriers[k].name = n_carriers0[k].name
       /\ \A a, b \in DOMAIN n_carriers : a # b => n_carriers[a].name # n_carriers[b].name

\* a component names a carrier that was there before and one that was not
C20_Witness ==
  /\ cpc = "done"
  /\ Len(n_carriers) > Len(n_carriers0)
  /\ \E c \in DOMAIN components : \E r \in DOMAIN components[c].carrier :
       \E k \in DOMAIN n_carriers0 : n_carriers0[k].name = components[c].carrier[r]

\* C21: after a call that came back, every state of the column STATE has
\* one bus named by the state and the carrier, and one generator of that
\* name on that bus, extendable and of capacity zero; a call with the
\* carrier of a call before it leaves carriers, buses and generators alone
C21_OneBusAndGeneratorPerState ==
  (spc = "ready" /\ s_carrier # "") =>
    /\ \A k \in DOMAIN s_buses : s_buses[k].State # "NaN" =>
         LET name == <<s_buses[k].State, " ", s_carrier>>
         IN  /\ Cardinality({b \in DOMAIN s_buses : s_buses[b].name = name}) = 1
             /\ Cardinality({g \in DOMAIN s_generators : s_generators[g].name = name}) = 1
             /\ \A g \in DOMAIN s_generators : s_generators[g].name = name =>
                  /\ s_generators[g].bus = name
                  /\ s_generators[g].p_nom = 0
                  /\ s_generators[g].p_nom_extendable
    /\ (\E k \in DOMAIN s_done : s_done[k] = s_carrier) =>
         [buses |-> s_buses, generators |-> s_generators, carriers |-> s_carriers] = s_before

\* the third call has the carrier of the first, another one came in between
C21_Witness ==
  /\ spc = "ready"
  /\ Len(s_done) = 2
  /\ s_done[1] = s_carrier
  /\ s_done[2] # s_carrier
  /\ Len(s_generators) = 4

\* C22: when the call is done every load is on the bus of its own name; for
\* a load that was on a bus of the network, that bus is there and has the
\* carrier of the load and the coordinates, country, interconnect and state
\* of the bus the load was on; the buses the network had are all there
C22_LoadsOnTheirOwnBuses ==
  lpc = "done" =>
    /\ \A k \in DOMAIN l_loads : l_loads[k].bus = l_loads[k].name
    /\ \A k \in DOMAIN l_loads : \A o \in DOMAIN l_before.buses :
         l_before.loads[k].bus = l_before.buses[o].name =>
           \E b \in DOMAIN l_buses :
             /\ l_buses[b].name = l_loads[k].name
             /\ l_buses[b].carrier = l_loads[k].carrier
             /\ l_buses[b].x = l_before.buses[o].x
             /\ l_buses[b].y = l_before.buses[o].y
             /\ l_buses[b].country = l_before.buses[o].country
             /\ l_buses[b].interconnect = l_before.buses[o].interconnect
             /\ l_buses[b].State = l_before.buses[o].State
    /\ \A o \in DOMAIN l_before.buses : l_buses[o] = l_before.buses[o]

\* two buses with loads of two carriers, and a load without a bus
C22_Witness ==
  /\ lpc = "done"
  /\ Len(l_before.buses) = 2
  /\ Len(l_buses) = 2 + 3
  /\ Len(l_loads) = 4

\* the wildcard is E, or E-E, or E-E-E, ...: each of its elements is E
OnlyE(str) ==
  /\ Len(str) % 2 = 1
  /\ \A k \in DOMAIN str : str[k] = (IF k % 2 = 1 THEN "E" ELSE "-")

\* C23: with a wildcard whose elements are all E the run exports the network
\* as it was read and exits, and no step is ever run; with any other wildcard
\* the network is exported only after all the steps, in their order
C23_ExportAfterTheSteps ==
  mpc # "idle" =>
    IF OnlyE(m_wildcard)
      THEN /\ m_steps = <<>>
           /\ mpc # "start" => (mpc = "exited" /\ m_exported = <<[network |-> <<>>]>>)
      ELSE /\ mpc # "exited"
           /\ m_exported # <<>> =>
                (mpc = "done" /\ m_steps = SectorSteps
                 /\ m_exported = <<[network |-> SectorSteps]>>)
           /\ mpc # "done" => m_exported = <<>>

\* a wildcard with E and another element has gone through all the steps
C23_Witness ==
  /\ mpc = "done"
  /\ Len(m_sectors) = 2
  /\ m_sectors[1] = <<"E">>
  /\ m_exported # <<>>

\* a point lies strictly outside the bounding box
OutsideBox(p, bb) ==
  p[1] < bb.xmin \/ p[1] > bb.xmax \/ p[2] < bb.ymin \/ p[2] > bb.ymax

\* C24: once the bounding box of two or more points is taken, the four frame
\* points differ from each other and each lies strictly outside the box
C24_Original ==
  (pc \in {"voronoi", "loop", "done"} /\ Len(points) >= 2) =>
    LET frame == FramePoints(bbox)
    IN  /\ \A a \in 1..4 : \A b \in 1..4 : a # b => frame[a] # frame[b]
        /\ \A a \in 1..4 : OutsideBox(frame[a], bbox)

\* the positions of the steps of one kind taken for cell k
StepsOf(kind, k) ==
  {t \in DOMAIN r_trace : r_trace[t].step = kind /\ r_trace[t].cell = k}

\* C25: for every cell the loop has gone through, the repair by a zero buffer
\* was made exactly when the polygon of the cell was invalid, once and before
\* the intersection, and the polygon of a valid cell is the operand of the
\* intersection as it was
C25_RepairBeforeIntersection ==
  \A k \in DOMAIN r_cells :
    StepsOf("intersection", k) # {} =>
      /\ Cardinality(StepsOf("intersection", k)) = 1
      /\ Cardinality(StepsOf("buffer", k)) = (IF r_cells[k].valid THEN 0 ELSE 1)
      /\ \A b \in StepsOf("buffer", k) : \A c \in StepsOf("intersection", k) : b < c
      /\ \A c \in StepsOf("intersection", k) :
           /\ r_trace[c].operand.valid
           /\ r_trace[c].operand.locs = r_cells[k].locs
           /\ r_cells[k].valid => r_trace[c].operand = r_cells[k]

\* a valid cell and an invalid one have gone through the loop
C25_Witness ==
  /\ rpc = "done"
  /\ Len(r_cells) = 2
  /\ r_cells[1].valid
  /\ ~r_cells[2].valid
  /\ r_cells[2].locs # {}
  /\ Len(r_trace) = 3

\* the buses with an offshore substation that the offshore shape contains
OffshoreBusesInShape ==
  SortedSeq({b \in DOMAIN buses :
               buses[b].substation_off /\ Contains(offshore_shapes["US"], buses[b].loc)})

\* C26: in state mode the points of the offshore call, and the rows of the
\* offshore table, are the buses with an offshore substation that lie inside
\* the offshore shape
C26_Original ==
  use_state_shapes =>
    /\ \A k \in DOMAIN calllog :
         calllog[k].class = "offshore" => calllog[k].names = OffshoreBusesInShape
    /\ \A t \in DOMAIN offshore_regions :
         [k \in DOMAIN offshore_regions[t] |-> offshore_regions[t][k].name]
           = OffshoreBusesInShape

\* the rows of the onshore tables: the table and the position in it
OnshoreRows ==
  {<<t, k>> : t \in DOMAIN onshore_regions, k \in 1..MaxBuses} \cap
  {r \in (DOMAIN onshore_regions) \X (1..MaxBuses) : r[2] \in DOMAIN onshore_regions[r[1]]}

\* C29: in state mode, at every point of the loop over the states, no bus has
\* a row in two onshore tables, and the bus of a row bears the state of its
\* table as its country
C29_OneStatePerBus ==
  use_state_shapes =>
    /\ \A r \in OnshoreRows : \A q \in OnshoreRows :
         onshore_regions[r[1]][r[2]].name = onshore_regions[q[1]][q[2]].name => r = q
    /\ \A r \in OnshoreRows :
         buses[onshore_regions[r[1]][r[2]].name].country
           = onshore_regions[r[1]][r[2]].country

\* two states have their tables, and a bus that both state shapes contain
\* belongs to the first
C29_Witness ==
  /\ use_state_shapes
  /\ Len(onshore_regions) = 2
  /\ idx > Len(states)
  /\ \E b \in DOMAIN buses :
       /\ Contains(state_shapes["Texas"], buses[b].loc)
       /\ Contains(state_shapes["Oklahoma"], buses[b].loc)
       /\ buses[b].country = "TX"
  /\ \E k \in DOMAIN onshore_regions[2] : onshore_regions[2][k].country = "OK"

\* the words of a file name, read off the name: those at the odd places
WordsOf(name) == [k \in 1..(Len(name) \div 2) |-> name[2 * k - 1]]

\* C27: in the sector branch a file attached under a name of two words has
\* the carrier sector-end use, one under a name of three words the carrier
\* sector-end use-vehicle, in the mapped abbreviations, and the suffix is "-"
\* and the carrier; a name of another number of words raises
\* NotImplementedError when its turn comes; and after that error nothing is
\* exported, whatever was attached before
C27_CarrierFromFileName ==
  f_sectors = "E-G" =>
    /\ \A c \in DOMAIN f_attached :
         LET ws == WordsOf(demand_files[f_attached[c].file])
             carr == f_attached[c].carrier
         IN  /\ f_attached[c].file = c
             /\ Len(ws) \in {2, 3}
             /\ Len(ws) = 2 =>
                  carr = <<sector_mapper[ws[1]], "-", carrier_mapper[ws[2]]>>
             /\ Len(ws) = 3 =>
                  carr = <<sector_mapper[ws[1]], "-", carrier_mapper[ws[3]], "-",
                           vehicle_mapper[ws[2]]>>
             /\ f_attached[c].suffix = <<"-">> \o carr
    /\ (f_i <= Len(demand_files) /\ fpc # "start"
          /\ Len(WordsOf(demand_files[f_i])) \notin {2, 3}) =>
         (fpc = "raised" /\ ferr = "NotImplementedError")
    /\ ferr = "NotImplementedError" =>
         /\ ~f_exported
         /\ fpc = "raised"
         /\ Len(WordsOf(demand_files[f_i])) \notin {2, 3}

\* a file was attached, the name after it has four words, and its turn ended
\* the run
C27_Witness ==
  /\ fpc = "raised"
  /\ ferr = "NotImplementedError"
  /\ Len(f_attached) = 1
  /\ f_attached[1].carrier = <<"trn", "-", "elec">>
  /\ Len(WordsOf(demand_files[2])) = 4

\* two fractions are the same number
SameNumber(a, b) == a.num * b.den = b.num * a.den

\* C30: a call with a scalar rate returns what a call with a Series returns
\* for an element of that rate, for negative rates too: 1/n for the rate
\* zero, the annuity formula for every other rate
C30_Original ==
  apc = "done" =>
    \A k \in DOMAIN a_r.rates :
      SameNumber(a_out[k],
                 IF a_r.rates[k] = 0 THEN OneOverN(a_n)
                 ELSE AnnuityFormula(a_n, a_r.rates[k]))

\* C28: once the profile is cut and relabelled it has one row for each
\* snapshot, row k bears snapshot k and the value of row k of the profile read,
\* whatever time stamp that row had, and p_max_pu of snapshot k is that value
\* over p_nom; the rows of the profile after the first len(n.snapshots) are
\* not used
C28_RowsByPosition ==
  /\ wpc \in {"scale", "done"} =>
       /\ Len(w_p) = Len(w_snapshots)
       /\ Len(w_profile) >= Len(w_snapshots)
       /\ \A k \in DOMAIN w_p :
            w_p[k].t = w_snapshots[k] /\ w_p[k].v = w_profile[k].v
  /\ wpc = "done" =>
       /\ DOMAIN w_p_max_pu = DOMAIN w_snapshots
       /\ \A k \in DOMAIN w_p_max_pu :
            /\ w_p_max_pu[k].t = w_snapshots[k]
            /\ IF w_p_nom = 0
                 THEN w_p_max_pu[k].v.num = 0
                 ELSE SameNumber(w_p_max_pu[k].v, Frac(w_profile[k].v, w_p_nom))

\* a profile of three rows whose time stamps run against the snapshots, cut
\* to two rows
C28_Witness ==
  /\ wpc = "done"
  /\ Len(w_snapshots) = 2
  /\ Len(w_profile) = 3
  /\ w_profile[1].t = 2
  /\ w_profile[2].t = 1
  /\ w_profile[1].v # w_profile[2].v
  /\ w_profile[3].v = 1
  /\ w_p_nom # 0

====
